---- MODULE Spec2Model ----
(***************************************************************************)
(* BrowserFreak: the agent workflow of browser_agent.py (the LangGraph     *)
(* graph security_check -> agent -> tool and run_agent_workflow around     *)
(* it), the rule-based decision engine of decision_engine.py and the       *)
(* security manager of security.py.                                        *)
(*                                                                         *)
(* Text is modelled character by character: a Python str is a TLA+ string, *)
(* read with Len, SubSeq and \o, so that lower(), strip(), the "in"        *)
(* substring test and the regular expressions are computed as the code     *)
(* computes them.                                                          *)
(***************************************************************************)
EXTENDS Integers, Sequences, FiniteSets, TLC

(***************************************************************************)
(* Python str primitives                                                   *)
(***************************************************************************)
LowerLetters == "abcdefghijklmnopqrstuvwxyz"
UpperLetters == "ABCDEFGHIJKLMNOPQRSTUVWXYZ"
LowerSet == {"a", "b", "c", "d", "e", "f", "g", "h", "i", "j", "k", "l", "m", "n", "o", "p", "q", "r", "s", "t", "u", "v", "w", "x", "y", "z"}
UpperSet == {"A", "B", "C", "D", "E", "F", "G", "H", "I", "J", "K", "L", "M", "N", "O", "P", "Q", "R", "S", "T", "U", "V", "W", "X", "Y", "Z"}
DigitSet == {"0", "1", "2", "3", "4", "5", "6", "7", "8", "9"}

\* \w of the re module (ASCII letters, digits, underscore)
WordChars == LowerSet \cup UpperSet \cup DigitSet \cup {"_"}

\* the characters str.strip() removes
Whitespace == {" ", "\t", "\n", "\r"}

\* s[i-1] of Python, as a one-character string
Ch(s, i) == SubSeq(s, i, i)

\* position of a letter in an alphabet string
IndexIn(alphabet, c) == CHOOSE i \in 1..Len(alphabet) : Ch(alphabet, i) = c

LowerChar(c) == IF c \in UpperSet THEN Ch(LowerLetters, IndexIn(UpperLetters, c)) ELSE c

UpperChar(c) == IF c \in LowerSet THEN Ch(UpperLetters, IndexIn(LowerLetters, c)) ELSE c

RECURSIVE Lower(_)
\* str.lower(), character by character (the text is split in halves to keep
\* the recursion shallow)
Lower(s) == IF Len(s) = 0 THEN ""
            ELSE IF Len(s) = 1 THEN LowerChar(s)
            ELSE Lower(SubSeq(s, 1, Len(s) \div 2))
                 \o Lower(SubSeq(s, (Len(s) \div 2) + 1, Len(s)))

RECURSIVE Upper(_)
\* str.upper(), character by character
Upper(s) == IF Len(s) = 0 THEN ""
            ELSE IF Len(s) = 1 THEN UpperChar(s)
            ELSE Upper(SubSeq(s, 1, Len(s) \div 2))
                 \o Upper(SubSeq(s, (Len(s) \div 2) + 1, Len(s)))

\* str.strip(): drop leading and trailing whitespace
Strip(s) ==
    LET keep == {i \in 1..Len(s) : Ch(s, i) \notin Whitespace}
    IN  IF keep = {} THEN ""
        ELSE LET lo == CHOOSE i \in keep : \A j \in keep : i <= j
                 hi == CHOOSE i \in keep : \A j \in keep : j <= i
             IN  SubSeq(s, lo, hi)

\* s[:n]
Prefix(s, n) == IF Len(s) <= n THEN s ELSE SubSeq(s, 1, n)

\* does sub occur in s at (1-based) position i
At(s, i, sub) == /\ i >= 1
                 /\ i + Len(sub) - 1 <= Len(s)
                 /\ SubSeq(s, i, i + Len(sub) - 1) = sub

\* Python  sub in s
Contains(s, sub) == \E i \in 1..(Len(s) - Len(sub) + 1) : At(s, i, sub)

\* any(keyword in s for keyword in keywords)
ContainsAny(s, keywords) == \E k \in keywords : Contains(s, k)

RECURSIVE NatStr(_)
\* str(n) for a natural number
NatStr(n) == IF n < 10 THEN Ch("0123456789", n + 1)
             ELSE NatStr(n \div 10) \o Ch("0123456789", (n % 10) + 1)

RECURSIVE StrNat(_)
\* int(s) for a string of digits
StrNat(s) == IF s = "" THEN 0
             ELSE 10 * StrNat(SubSeq(s, 1, Len(s) - 1))
                  + (IndexIn("0123456789", Ch(s, Len(s))) - 1)

(***************************************************************************)
(* Regular-expression primitives (re module, one line of text)            *)
(***************************************************************************)
\* is the character at position i a word character (FALSE outside s)
IsWordAt(s, i) == i >= 1 /\ i <= Len(s) /\ Ch(s, i) \in WordChars

\* \b between positions i-1 and i
Boundary(s, i) == IsWordAt(s, i - 1) # IsWordAt(s, i)

\* \b(w) at i: w starts at i on a word boundary
StartsWord(s, i, w) == At(s, i, w) /\ Boundary(s, i)

\* (w)\b at i: w starts at i and ends on a word boundary
EndsWord(s, i, w) == At(s, i, w) /\ Boundary(s, i + Len(w))

\* \b(w)\b at i
WholeWord(s, i, w) == StartsWord(s, i, w) /\ EndsWord(s, i, w)

Positions(s) == 1..Len(s)

\* "." of the re module matches anything but a newline: s[a..b] has none
NoNewline(s, a, b) == \A k \in a..b : Ch(s, k) # "\n"

\* ends (position after the last character) of the matches that start at i
\* of the alternation (w1|w2|...|a.*b|...): words are literal alternatives,
\* gaps are the alternatives <<a, b>> standing for a.*b
MatchEnds(s, i, words, gaps) ==
    {i + Len(w) : w \in {x \in words : At(s, i, x)}}
    \cup UNION {
        {e \in (i + Len(g[1]) + Len(g[2]))..(Len(s) + 1) :
            /\ At(s, e - Len(g[2]), g[2])
            /\ NoNewline(s, i + Len(g[1]), e - Len(g[2]) - 1)}
        : g \in {x \in gaps : At(s, i, x[1])}}

\* re.search of \b(words|gaps)\b, case-insensitively
SearchGroup(text, words, gaps) ==
    LET s == Lower(text)
    IN  \E i \in Positions(s) :
            /\ Boundary(s, i)
            /\ \E e \in MatchEnds(s, i, words, gaps) : Boundary(s, e)

\* re.search of \b(words1|gaps1)[\b].*\b(words2|gaps2)\b, case-insensitively;
\* closed1 tells whether the first group is followed by \b
SearchTwoGroups(text, words1, gaps1, closed1, words2, gaps2) ==
    LET s == Lower(text)
    IN  \E i \in Positions(s) :
            /\ Boundary(s, i)
            /\ \E e \in MatchEnds(s, i, words1, gaps1) :
                /\ closed1 => Boundary(s, e)
                /\ \E j \in e..Len(s) :
                    /\ NoNewline(s, e, j - 1)
                    /\ Boundary(s, j)
                    /\ \E e2 \in MatchEnds(s, j, words2, gaps2) : Boundary(s, e2)

(***************************************************************************)
(* decision_engine.py: DecisionEngine._initialize_patterns                 *)
(***************************************************************************)
WebsiteNames == {"amazon", "google", "youtube", "facebook", "twitter", "netflix",
                 "ebay", "reddit", "linkedin", "instagram", "wikipedia", "github",
                 "stackoverflow", "microsoft", "apple"}

\* the submit pattern with "submit" left out of its second group
submit_click_without_submit(text) ==
    SearchTwoGroups(text, {"click", "press", "tap"}, {}, FALSE, {"send", "confirm"}, {})

\* r"\b(click|press|tap).*\b(submit|send|confirm)\b"
submit_click(text) ==
    SearchTwoGroups(text, {"click", "press", "tap"}, {}, FALSE,
                    {"submit", "send", "confirm"}, {})

\* r"\b(pay|purchase|buy|checkout|complete.*order)\b"
payment_action(text) ==
    SearchGroup(text, {"pay", "purchase", "buy", "checkout"}, {<<"complete", "order">>})

\* r"\b(type|enter|fill.*in|input|write)\b.*\b(text|information|data)\b"
text_input(text) ==
    SearchTwoGroups(text, {"type", "enter", "input", "write"}, {<<"fill", "in">>}, TRUE,
                    {"text", "information", "data"}, {})

\* r"\b(finish|complete|done|end|stop)\b"
finish_task(text) ==
    SearchGroup(text, {"finish", "complete", "done", "end", "stop"}, {})

\* r"\b(navigate|go.*to|open|visit)\b.*\b(page|url|link|website)\b"
navigate_action(text) ==
    SearchTwoGroups(text, {"navigate", "open", "visit"}, {<<"go", "to">>}, TRUE,
                    {"page", "url", "link", "website"}, {})

\* r"\b(search|find|look.*for)\b"
search_action(text) ==
    SearchGroup(text, {"search", "find"}, {<<"look", "for">>})

\* r"\b(scroll|move.*down|move.*up|go.*down|go.*up|page.*down|page.*up)\b"
scroll_action(text) ==
    SearchGroup(text, {"scroll"},
                {<<"move", "down">>, <<"move", "up">>, <<"go", "down">>,
                 <<"go", "up">>, <<"page", "down">>, <<"page", "up">>})

\* starts of the matches of r"\b(amazon|google|...|apple)\b" in text
WebsiteStarts(text) ==
    LET s == Lower(text)
    IN  {i \in Positions(s) : \E w \in WebsiteNames : WholeWord(s, i, w)}

\* website_mention.search(text) is not None
website_mention(text) == WebsiteStarts(text) # {}

\* website_mention.search(text).group(0): the leftmost match, in the
\* spelling of the searched text
website_group0(text) ==
    LET s == Lower(text)
        i == CHOOSE p \in WebsiteStarts(text) : \A q \in WebsiteStarts(text) : p <= q
        w == CHOOSE x \in WebsiteNames : WholeWord(s, i, x)
    IN  SubSeq(text, i, i + Len(w) - 1)

(***************************************************************************)
(* decision_engine.py: the two ad-hoc searches of _make_fallback_decision  *)
(***************************************************************************)
Quotes == {"\"", "'"}

\* can  ["\']?.*(into|in)  match from position x on
TailMatches(s, x) ==
    \E q \in x..Len(s) : At(s, q, "in") /\ NoNewline(s, x, q - 1)

\* re.search(r'(type|enter|fill).*["\']?(.*?)["\']?.*(into|in)', content):
\* <<TRUE, group(2)>> for the match the backtracking search finds, <<FALSE, "">>
\* without a match.  The first .* is greedy, so it ends at the last place p
\* from which the rest still matches; the optional quote is taken when it is
\* there; (.*?) is lazy, so it takes the fewest characters that let the rest
\* match.
text_match(content) ==
    LET s == content
        starts == {i \in Positions(s) :
                     \E w \in {"type", "enter", "fill"} :
                        At(s, i, w) /\ TailMatches(s, i + Len(w))}
    IN  IF starts = {} THEN <<FALSE, "">>
        ELSE LET i  == CHOOSE a \in starts : \A b \in starts : a <= b
                 w  == CHOOSE x \in {"type", "enter", "fill"} : At(s, i, x)
                 ps == {p \in (i + Len(w))..(Len(s) + 1) :
                          NoNewline(s, i + Len(w), p - 1) /\ TailMatches(s, p)}
                 p  == CHOOSE a \in ps : \A b \in ps : b <= a
                 g  == IF p <= Len(s) /\ Ch(s, p) \in Quotes /\ TailMatches(s, p + 1)
                       THEN p + 1 ELSE p
                 ls == {n \in 0..(Len(s) + 1 - g) :
                          NoNewline(s, g, g + n - 1) /\ TailMatches(s, g + n)}
                 n  == CHOOSE a \in ls : \A b \in ls : a <= b
             IN  <<TRUE, SubSeq(s, g, g + n - 1)>>

\* end (position after) of the run of digits that starts at i
DigitsEnd(s, i) ==
    CHOOSE e \in (i + 1)..(Len(s) + 1) :
        /\ \A k \in i..(e - 1) : Ch(s, k) \in DigitSet
        /\ e = Len(s) + 1 \/ Ch(s, e) \notin DigitSet

\* position after the run of whitespace that starts at i
SpacesEnd(s, i) ==
    CHOOSE e \in i..(Len(s) + 1) :
        /\ \A k \in i..(e - 1) : Ch(s, k) \in Whitespace
        /\ e = Len(s) + 1 \/ Ch(s, e) \notin Whitespace

\* starts of the matches of r"\b(\d+)\s*(pixels?|px)\b"
AmountStarts(s) ==
    {i \in Positions(s) :
        /\ Ch(s, i) \in DigitSet
        /\ Boundary(s, i)
        /\ LET u == SpacesEnd(s, DigitsEnd(s, i))
           IN  \E w \in {"pixels", "pixel", "px"} : EndsWord(s, u, w)}

\* re.search(r"\b(\d+)\s*(pixels?|px)\b", content): <<TRUE, int(group(1))>>
\* for the leftmost match, <<FALSE, 0>> without one
amount_match(content) ==
    LET s == Lower(content)
    IN  IF AmountStarts(s) = {} THEN <<FALSE, 0>>
        ELSE LET i == CHOOSE a \in AmountStarts(s) : \A b \in AmountStarts(s) : a <= b
             IN  <<TRUE, StrNat(SubSeq(s, i, DigitsEnd(s, i) - 1))>>

(***************************************************************************)
(* Messages, tool calls and decisions                                      *)
(***************************************************************************)
\* the empty dict {}
EmptyArgs == <<>>

ToolCall(name, args) == [name |-> name, args |-> args]

\* {"tool_calls": [call]}
ToolDecision(call) == [tool_calls |-> <<call>>]

\* {"content": text}
ContentDecision(text) == [content |-> text]

UserMessage(text) == [role |-> "user", content |-> text]

AssistantToolMessage(call) == [role |-> "assistant", tool_calls |-> <<call>>]

AssistantMessage(text) == [role |-> "assistant", content |-> text]

ToolMessage(id, text) == [role |-> "tool", tool_call_id |-> id, content |-> text]

\* dict.get(key, default)
Get(d, key, default) == IF key \in DOMAIN d THEN d[key] ELSE default

\* A message whose content is not a str.  TLA+ values carry no run-time type,
\* so such a message is marked with the Python type of its content and holds
\* the content's str(); a message without the mark has a str content.
NonStrMessage(role, type, text) == [role |-> role, content |-> text, content_type |-> type]

\* an exception: type(e).__name__ and str(e)
Exception(error_type, error_message) ==
    [error_type |-> error_type, error_message |-> error_message]

(***************************************************************************)
(* decision_engine.py: DecisionEngine._make_fallback_decision              *)
(***************************************************************************)
MockPage == "<html><body><button>Submit</button></body></html>"

PaymentSelector == "button.pay-now, button.checkout, button#purchase"

DefaultAmount == 500

\* "form" in page_context.lower() if page_context else False
PageHas(page_context, what) ==
    IF page_context = "" THEN FALSE ELSE Contains(Lower(page_context), what)

\* the reply to an instruction that matches no rule
DefaultResponse(page_context) ==
    LET s1 == IF PageHas(page_context, "form") THEN <<"I see forms on this page">> ELSE <<>>
        s2 == IF PageHas(page_context, "input")
              THEN <<"there are input fields available">> ELSE <<>>
        s3 == IF PageHas(page_context, "button")
              THEN <<"clickable buttons are present">> ELSE <<>>
        suggestions == s1 \o s2 \o s3
        joined == IF Len(suggestions) = 0 THEN ""
                  ELSE IF Len(suggestions) = 1 THEN suggestions[1]
                  ELSE IF Len(suggestions) = 2 THEN suggestions[1] \o ", " \o suggestions[2]
                  ELSE suggestions[1] \o ", " \o suggestions[2] \o ", " \o suggestions[3]
    IN  "I understand your request, but I need more specific instructions to complete this task."
        \o (IF Len(suggestions) > 0 THEN " " \o joined \o "." ELSE "")
        \o " Please provide more specific instructions or say 'finish' to complete the task."

\* the first message with role "user", stripped; "" when there is none
\* (None and the empty string are both falsy at the use)
OriginalUserMessage(msgs) ==
    LET users == {i \in 1..Len(msgs) : Get(msgs[i], "role", "") = "user"}
    IN  IF users = {} THEN ""
        ELSE Strip(msgs[CHOOSE i \in users : \A j \in users : i <= j].content)

NavigateDecision(name) == ToolDecision(ToolCall("navigate_to_website", [website_name |-> name]))

\* the branch of the scroll rule
ScrollDecision(content) ==
    LET direction == IF Contains(content, "up") THEN "up"
                     ELSE IF Contains(content, "down") THEN "down"
                     ELSE IF Contains(content, "left") THEN "left"
                     ELSE IF Contains(content, "right") THEN "right"
                     ELSE "down"
        m == amount_match(content)
        amount == IF m[1] THEN m[2] ELSE DefaultAmount
    IN  ToolDecision(ToolCall("scroll_page", [direction |-> direction, amount |-> amount]))

\* the branch of the text-entry rule
TypeDecision(content, page_context) ==
    LET m == text_match(content)
        text_to_input == IF m[1] /\ m[2] # "" THEN m[2] ELSE "test data"
        selector == IF PageHas(page_context, "input")
                    THEN "input[type='text'], input:not([type]), textarea"
                    ELSE "input"
    IN  ToolDecision(ToolCall("type_text", [selector |-> selector, text |-> text_to_input]))

\* the rules with the payment rule moved in front of the completion rule
PatternDecisionPaymentFirst(msgs, page_context) ==
    LET last_message == msgs[Len(msgs)]
        content == Lower(Strip(last_message.content))
    IN  IF payment_action(content)
        THEN ToolDecision(ToolCall("click_element", [selector |-> PaymentSelector]))
        ELSE IF finish_task(content) THEN ContentDecision("FINISH")
        ELSE IF submit_click(content)
        THEN ToolDecision(ToolCall("click_element",
                 [selector |-> IF PageHas(page_context, "form")
                               THEN "button[type='submit']" ELSE "button"]))
        ELSE IF text_input(content) THEN TypeDecision(content, page_context)
        ELSE IF scroll_action(content) THEN ScrollDecision(content)
        ELSE IF navigate_action(content) \/ search_action(content)
        THEN ToolDecision(ToolCall("get_page_state", EmptyArgs))
        ELSE IF website_mention(content) THEN NavigateDecision(website_group0(content))
        ELSE ContentDecision(DefaultResponse(page_context))

\* the rules after the website check on the original user message
PatternDecision(msgs, page_context) ==
    LET last_message == msgs[Len(msgs)]
        content == Lower(Strip(last_message.content))
        original_content == Strip(last_message.content)
    IN  IF finish_task(content) THEN ContentDecision("FINISH")
        ELSE IF submit_click(content)
        THEN ToolDecision(ToolCall("click_element",
                 [selector |-> IF PageHas(page_context, "form")
                               THEN "button[type='submit']" ELSE "button"]))
        ELSE IF payment_action(content)
        THEN ToolDecision(ToolCall("click_element", [selector |-> PaymentSelector]))
        ELSE IF text_input(content) THEN TypeDecision(content, page_context)
        ELSE IF scroll_action(content) THEN ScrollDecision(content)
        ELSE IF navigate_action(content) \/ search_action(content)
        THEN ToolDecision(ToolCall("get_page_state", EmptyArgs))
        ELSE IF website_mention(content) THEN NavigateDecision(website_group0(content))
        ELSE IF website_mention(original_content)
        THEN NavigateDecision(website_group0(original_content))
        ELSE ContentDecision(DefaultResponse(page_context))

\* the rules without the website check on the original user message
fallback_without_original_check(msgs, page_context) == PatternDecision(msgs, page_context)

_make_fallback_decision(msgs, page_context) ==
    LET original_user_message == OriginalUserMessage(msgs)
    IN  IF original_user_message # "" /\ website_mention(original_user_message)
        THEN NavigateDecision(website_group0(original_user_message))
        ELSE PatternDecision(msgs, page_context)

(***************************************************************************)
(* decision_engine.py: DecisionEngine._validate_messages                   *)
(***************************************************************************)
\* the validation without the test for blank content
InvalidMessagesBlankAllowed(msgs) ==
    IF Len(msgs) = 0 THEN TRUE
    ELSE IF "content" \notin DOMAIN msgs[Len(msgs)] THEN TRUE
    ELSE Get(msgs[Len(msgs)], "content_type", "str") # "str"

\* TRUE when _validate_messages raises ValidationError
InvalidMessages(msgs) ==
    IF Len(msgs) = 0 THEN TRUE
    ELSE IF "content" \notin DOMAIN msgs[Len(msgs)] THEN TRUE
    ELSE IF Get(msgs[Len(msgs)], "content_type", "str") # "str" THEN TRUE
    ELSE Strip(msgs[Len(msgs)].content) = ""

\* str(e) of the ValidationError _validate_messages raises, "" when it
\* raises none
ValidationMessage(msgs) ==
    IF Len(msgs) = 0 THEN "Messages list cannot be empty"
    ELSE IF "content" \notin DOMAIN msgs[Len(msgs)]
    THEN "Last message must be a dict with 'content' key"
    ELSE IF Get(msgs[Len(msgs)], "content_type", "str") # "str"
    THEN "Message content must be a string"
    ELSE IF Strip(msgs[Len(msgs)].content) = ""
    THEN "Empty message received. Please provide a valid instruction."
    ELSE ""

(***************************************************************************)
(* Python repr / str of a tool-argument dict                               *)
(***************************************************************************)
RECURSIVE EscapeQuote(_)
\* repr() escapes the single quotes of a string that holds both kinds
EscapeQuote(s) ==
    IF Len(s) = 0 THEN ""
    ELSE IF Len(s) = 1 THEN (IF s = "'" THEN "\\'" ELSE s)
    ELSE EscapeQuote(SubSeq(s, 1, Len(s) \div 2))
         \o EscapeQuote(SubSeq(s, (Len(s) \div 2) + 1, Len(s)))

\* repr(s) of a str
PyRepr(s) ==
    IF Contains(s, "'") /\ ~Contains(s, "\"")
    THEN "\"" \o s \o "\""
    ELSE "'" \o EscapeQuote(s) \o "'"

\* the keys the tool schemas know, in the order the callers insert them
KeyOrder == <<"selector", "text", "direction", "amount", "website_name">>

\* repr of one value: amount is an int, every other argument a str
ReprValue(key, value) == IF key = "amount" THEN NatStr(value) ELSE PyRepr(value)

RECURSIVE ReprItems(_, _)
\* "'k1': v1, 'k2': v2" over the keys of args, from position i of KeyOrder on
ReprItems(args, i) ==
    IF i > Len(KeyOrder) THEN ""
    ELSE LET rest == ReprItems(args, i + 1)
             key  == KeyOrder[i]
         IN  IF key \notin DOMAIN args THEN rest
             ELSE "'" \o key \o "': " \o ReprValue(key, args[key])
                  \o (IF rest = "" THEN "" ELSE ", " \o rest)

\* str(tool_args)
StrArgs(args) == "{" \o ReprItems(args, 1) \o "}"

(***************************************************************************)
(* security.py: SecurityManager                                            *)
(***************************************************************************)
destructive_keywords == {"pay", "delete", "checkout", "purchase", "buy", "submit payment",
                         "confirm order", "transfer", "send money", "authorize payment",
                         "complete transaction", "finalize purchase"}

\* the keyword test without the test of the setting
is_destructive_action_unconditional(enabled, action_description) ==
    ContainsAny(Lower(action_description), destructive_keywords)

is_destructive_action(enabled, action_description) ==
    IF ~enabled THEN FALSE
    ELSE ContainsAny(Lower(action_description), destructive_keywords)

\* the tool-specific tests without the test of the action description
should_require_approval_by_tool_only(enabled, tool_name, tool_args) ==
    IF ~enabled THEN FALSE
    ELSE IF tool_name = "click_element"
    THEN ContainsAny(Lower(Get(tool_args, "selector", "")),
                     {"pay", "checkout", "purchase", "submit"})
    ELSE IF tool_name = "type_text"
    THEN ContainsAny(Lower(Get(tool_args, "text", "")),
                     {"password", "credit", "card", "ssn", "social"})
    ELSE FALSE

should_require_approval(enabled, tool_name, tool_args) ==
    IF ~enabled THEN FALSE
    ELSE IF tool_name = "click_element"
            /\ ContainsAny(Lower(Get(tool_args, "selector", "")),
                           {"pay", "checkout", "purchase", "submit"})
    THEN TRUE
    ELSE IF tool_name = "type_text"
            /\ ContainsAny(Lower(Get(tool_args, "text", "")),
                           {"password", "credit", "card", "ssn", "social"})
    THEN TRUE
    ELSE is_destructive_action(enabled, tool_name \o " " \o StrArgs(tool_args))

get_approval_message(tool_name, tool_args) ==
    IF tool_name = "click_element"
    THEN "Click on element: " \o Get(tool_args, "selector", "unknown element")
    ELSE IF tool_name = "type_text"
    THEN "Type text into " \o Get(tool_args, "selector", "unknown field") \o ": '"
         \o Prefix(Get(tool_args, "text", ""), 50) \o "...'"
    ELSE IF tool_name = "navigate_to_website"
    THEN "Navigate to website: " \o Get(tool_args, "website_name", "unknown website")
    ELSE "Execute " \o tool_name \o " with args: " \o StrArgs(tool_args)

(***************************************************************************)
(* tools.py: execute_tool without a browser context                        *)
(***************************************************************************)
\* the parameters each wrapper takes besides the context: <<required, all>>
ToolParams ==
    [click_element       |-> <<{"selector"}, {"selector"}>>,
     type_text           |-> <<{"selector", "text"}, {"selector", "text"}>>,
     scroll_page         |-> <<{}, {"direction", "amount", "element_selector", "smooth"}>>,
     navigate_to_website |-> <<{"website_name"}, {"website_name"}>>]

\* wrapper(context, **tool_args) raises TypeError unless the keywords fit
ArgsFit(tool_name, tool_args) ==
    /\ ToolParams[tool_name][1] \subseteq DOMAIN tool_args
    /\ DOMAIN tool_args \subseteq ToolParams[tool_name][2]

\* execute_tool(tool_name, tool_args, None): the mock result; every
\* exception becomes False
execute_tool_mock(tool_name, tool_args) ==
    IF tool_name = "get_page_state" THEN [ok |-> TRUE, text |-> MockPage]
    ELSE IF tool_name \in DOMAIN ToolParams
    THEN [ok |-> ArgsFit(tool_name, tool_args),
          text |-> IF ArgsFit(tool_name, tool_args) THEN "True" ELSE "False"]
    ELSE [ok |-> FALSE, text |-> "False"]

(***************************************************************************)
(* Bounds of the model                                                     *)
(***************************************************************************)
\* max_iterations is drawn from 0..SmallIterations and from the values around
\* the default and the upper limit
SmallIterations == 4

\* a task text of more than 100 characters
LongTask == "scroll down 200 pixels and then keep reading the long article until "
            \o "the very last paragraph of the page is shown"

\* the task texts the runs are started with
Tasks == {"", "  ", "\t ",
          "Click the submit button on the page",
          "Click the pay now button to complete purchase",
          "Navigate to amazon and find a chair",
          "pay now to complete purchase",
          " buy the red shoes ",
          "type 'hello' into the text field",
          "scroll up 300 px",
          "do something vague",
          LongTask}

\* the tasks that are also run with use_real_browser=True (the graph never
\* sees the browser context, so the session life cycle and the conversation
\* do not influence each other)
BrowserTasks == {"", "  ", "Click the submit button on the page"}

\* what the Anthropic model may answer when the client is available
AIDecisions == {ToolDecision(ToolCall("click_element", [selector |-> "#delete-account"])),
                ToolDecision(ToolCall("click_element", [selector |-> "a.next"])),
                ToolDecision(ToolCall("fly_away", EmptyArgs)),
                ContentDecision("FINISH"),
                ContentDecision("The page shows a login form")}

(***************************************************************************)
(* Program constants                                                       *)
(***************************************************************************)
MinIterations == 1
MaxIterations == 20
max_browser_attempts == 3
max_workflow_attempts == 2
max_cleanup_attempts == 3
TaskPreview == 100
DefaultIterations == 5

\* the values max_iterations is drawn from
IterationInputs == (0..SmallIterations)
                   \cup {DefaultIterations, MaxIterations, MaxIterations + 1}

\* Supersteps the installed graph library spends before the entry node: 0
\* where the entry node is triggered by the input itself, 1 where a __start__
\* node first copies the input into the state.  The repository pins no
\* version, so a run may meet either.
StartSupersteps == {0, 1}

\* browser_context is None
None == 0

END == "END"

(***************************************************************************)
(* State                                                                   *)
(***************************************************************************)
VARIABLES
    initial_task,              \* argument of run_agent_workflow
    max_iterations,            \* argument of run_agent_workflow
    use_real_browser,          \* argument of run_agent_workflow (reset on fallback)
    enable_security_checks,    \* settings.agent.enable_security_checks
    ai_available,              \* anthropic_client.is_available
    pc,                        \* where the run is
    state,                     \* the dict `state` of run_agent_workflow, less messages
    messages,                  \* the list state["messages"]; the graph's nodes append
                               \* to this very list object
    graph,                     \* the state the graph's nodes pass along, less messages
    start_supersteps,          \* supersteps the graph library runs before the entry node
    step,                      \* supersteps the current ainvoke has run
    browser_context,           \* None or the session in use
    browser_creation_attempts,
    workflow_attempts,
    cleanup_attempts,
    created,                   \* browser sessions created so far (numbered 1..created)
    closed,                    \* sessions close_browser_context has closed
    tool_log,                  \* the calls execute_tool has been given, in order
    trace,                     \* the graph nodes that have run, in order
    result,                    \* what run_agent_workflow has returned or raised
    ui,                        \* st.session_state of agent_ui.py: the approval fields
    calls,                     \* the calls of decision_engine.make_decision, in order
    probe,                     \* the last call of the security manager and its answers
    node_context,              \* the context argument of the last call of a graph node
    task_store,                \* server.py: the dict task_store
    response,                  \* server.py: the last response of an endpoint
    task_request,              \* server.py: the TaskRequest of POST /tasks
    runs                       \* the runs of several background tasks, by task id

vars == <<initial_task, max_iterations, use_real_browser, enable_security_checks,
          ai_available, pc, state, messages, graph, step, browser_context,
          browser_creation_attempts, workflow_attempts, cleanup_attempts,
          created, closed, tool_log, trace, result, start_supersteps, ui,
          calls, probe, node_context, task_store, response, task_request, runs>>

inputs == <<initial_task, max_iterations, enable_security_checks, ai_available,
            start_supersteps>>

counters == <<browser_creation_attempts, workflow_attempts, cleanup_attempts>>

sessions == <<browser_context, created, closed>>

\* the records of the calls made to the decision engine and to the security
\* manager on their own, outside a run, and the state of the server
components == <<calls, probe, task_store, response, task_request, runs>>

Nodes == {"security_check", "agent", "tool", "human_approval"}

\* no request has been sent to the server
NoRequest == [sent |-> FALSE]

\* no background task runs, and no graph has saved a checkpoint
NoRuns == [of |-> <<>>, memory |-> <<>>]

\* task_store = {}
NoTasks == [task_id \in {} |-> [status |-> "none"]]

Init ==
    /\ initial_task \in Tasks
    /\ max_iterations \in IterationInputs
    /\ enable_security_checks \in BOOLEAN
    /\ ai_available \in BOOLEAN
    /\ use_real_browser \in (IF initial_task \in BrowserTasks /\ ~ai_available
                              THEN BOOLEAN ELSE {FALSE})
    /\ start_supersteps \in StartSupersteps
    /\ pc = "call"
    /\ state = [page_map |-> "", browser_action |-> "", task_complete |-> FALSE]
    /\ graph = [page_map |-> "", browser_action |-> "", task_complete |-> FALSE]
    /\ messages = <<>>
    /\ step = 0
    /\ browser_context = None
    /\ browser_creation_attempts = 0
    /\ workflow_attempts = 0
    /\ cleanup_attempts = 0
    /\ created = 0
    /\ closed = {}
    /\ tool_log = <<>>
    /\ trace = <<>>
    /\ node_context = None
    /\ result = [kind |-> "none"]
    /\ ui = [pending_approval |-> FALSE, pending_action |-> "", task_complete |-> FALSE,
             last_message |-> "none"]
    /\ calls = <<>>
    /\ probe = [called |-> FALSE]
    /\ task_store = NoTasks
    /\ response = [request |-> "none"]
    /\ task_request = NoRequest
    /\ runs = NoRuns

(***************************************************************************)
(* browser_agent.py: run_agent_workflow, validation and initial state      *)
(***************************************************************************)
\* the test without strip()
EmptyTaskUnstripped(task) == task = ""

\* not initial_task or not initial_task.strip()
EmptyTask(task) == task = "" \/ Strip(task) = ""

\* the range test with the upper limit excluded
BadIterationsOffByOne(n) == n < MinIterations \/ n >= MaxIterations

\* max_iterations < 1 or max_iterations > 20
BadIterations(n) == n < MinIterations \/ n > MaxIterations

Validate ==
    /\ pc = "call"
    /\ IF EmptyTask(initial_task) \/ BadIterations(max_iterations)
       THEN /\ result' = [kind |-> "raised", error_type |-> "ValidationError"]
            /\ pc' = "done"
            /\ UNCHANGED messages
       ELSE /\ messages' = <<UserMessage(Strip(initial_task))>>
            /\ pc' = IF use_real_browser THEN "create_browser" ELSE "workflow"
            /\ UNCHANGED result
    /\ UNCHANGED <<ui, inputs, components, node_context, use_real_browser, state, graph, step, counters, sessions,
                   tool_log, trace>>

(***************************************************************************)
(* browser_agent.py: run_agent_workflow, one turn of the creation loop     *)
(***************************************************************************)
\* a creation loop that keeps the session and the mode after its last failure
CreateBrowserKeepsContext ==
    /\ pc = "create_browser"
    /\ browser_creation_attempts < max_browser_attempts
    /\ \E outcome \in {"ok", "create_fails", "navigate_fails"} :
        LET made    == outcome # "create_fails"
            context == IF made THEN created + 1 ELSE browser_context
            failed  == browser_creation_attempts + 1
        IN  /\ created' = IF made THEN created + 1 ELSE created
            /\ browser_context' = context
            /\ UNCHANGED use_real_browser
            /\ IF outcome = "ok"
               THEN /\ pc' = "workflow"
                    /\ UNCHANGED browser_creation_attempts
               ELSE /\ browser_creation_attempts' = failed
                    /\ pc' = IF failed >= max_browser_attempts
                             THEN "workflow" ELSE "create_browser"
    /\ UNCHANGED <<ui, inputs, components, node_context, state, messages, graph, step, workflow_attempts,
                   cleanup_attempts, closed, tool_log, trace, result>>

CreateBrowser ==
    /\ pc = "create_browser"
    /\ browser_creation_attempts < max_browser_attempts
    /\ \E outcome \in {"ok", "create_fails", "navigate_fails"} :
        LET made    == outcome # "create_fails"
            context == IF made THEN created + 1 ELSE browser_context
            failed  == browser_creation_attempts + 1
        IN  /\ created' = IF made THEN created + 1 ELSE created
            /\ IF outcome = "ok"
               THEN /\ browser_context' = context
                    /\ pc' = "workflow"
                    /\ UNCHANGED <<browser_creation_attempts, use_real_browser>>
               ELSE /\ browser_creation_attempts' = failed
                    /\ IF failed >= max_browser_attempts
                       THEN /\ use_real_browser' = FALSE
                            /\ browser_context' = None
                            /\ pc' = "workflow"
                       ELSE /\ browser_context' = context
                            /\ UNCHANGED <<use_real_browser, pc>>
    /\ UNCHANGED <<ui, inputs, components, node_context, state, messages, graph, step, workflow_attempts,
                   cleanup_attempts, closed, tool_log, trace, result>>

(***************************************************************************)
(* browser_agent.py: run_agent_workflow, the workflow loop                 *)
(***************************************************************************)
\* app = create_workflow(); app.ainvoke(state, config) starts at the entry point
StartAttempt ==
    /\ pc = "workflow"
    /\ workflow_attempts < max_workflow_attempts
    /\ graph' = state
    /\ step' = start_supersteps
    /\ pc' = "security_check"
    /\ UNCHANGED <<ui, inputs, components, node_context, use_real_browser, state, messages, counters, sessions,
                   tool_log, trace, result>>

\* an error state that records the whole task
ErrorStateWholeTask(e) ==
    [kind |-> "error",
     messages |-> messages,
     page_map |-> state.page_map,
     browser_action |-> state.browser_action,
     task_complete |-> FALSE,
     error |-> [error_type |-> e.error_type,
                error_message |-> e.error_message,
                task |-> initial_task,
                use_real_browser |-> use_real_browser,
                max_iterations |-> max_iterations,
                browser_context_created |-> browser_context # None]]

\* the dict the outer except clause returns
ErrorState(e) ==
    [kind |-> "error",
     messages |-> messages,
     page_map |-> state.page_map,
     browser_action |-> state.browser_action,
     task_complete |-> FALSE,
     error |-> [error_type |-> e.error_type,
                error_message |-> e.error_message,
                task |-> Prefix(initial_task, TaskPreview),
                use_real_browser |-> use_real_browser,
                max_iterations |-> max_iterations,
                browser_context_created |-> browser_context # None]]

\* except Exception as workflow_error: count the attempt, then retry with
\* browser_action reset or re-raise into the outer except clause
WorkflowFailed(e) ==
    /\ workflow_attempts' = workflow_attempts + 1
    /\ IF workflow_attempts + 1 >= max_workflow_attempts
       THEN /\ result' = ErrorState(e)
            /\ pc' = "cleanup"
            /\ UNCHANGED state
       ELSE /\ state' = [state EXCEPT !.browser_action = ""]
            /\ pc' = "workflow"
            /\ UNCHANGED result

\* a graph without a recursion limit
NoLimit == TRUE

\* the graph runs the superstep numbered step only while step <= recursion_limit,
\* and it ends normally only if that still holds when no node is left to run
WithinLimit == step <= max_iterations

\* str(e) of the GraphRecursionError the graph library raises
RecursionLimitMessage ==
    "Recursion limit of " \o NatStr(max_iterations)
    \o " reached without hitting a stop condition."

GraphRecursionError ==
    /\ pc \in Nodes \cup {END}
    /\ ~WithinLimit
    /\ WorkflowFailed(Exception("GraphRecursionError", RecursionLimitMessage))
    /\ UNCHANGED <<ui, inputs, components, node_context, use_real_browser, messages, graph, step,
                   browser_creation_attempts, cleanup_attempts, sessions,
                   tool_log, trace>>

\* a workflow loop that counts a successful attempt and goes round again
ReturnAndRepeat ==
    /\ pc \in {END, "human_approval"}
    /\ WithinLimit
    /\ result' = [kind |-> "state",
                  messages |-> messages,
                  page_map |-> graph.page_map,
                  browser_action |-> graph.browser_action,
                  task_complete |-> graph.task_complete]
    /\ workflow_attempts' = workflow_attempts + 1
    /\ pc' = IF workflow_attempts + 1 >= max_workflow_attempts THEN "cleanup" ELSE "workflow"
    /\ UNCHANGED <<ui, inputs, components, node_context, use_real_browser, state, messages, graph, step,
                   browser_creation_attempts, cleanup_attempts, sessions, tool_log, trace>>

\* final_state = await app.ainvoke(...); return dict(final_state).  The graph
\* also hands back its state when it interrupts before human_approval.
Return ==
    /\ pc \in {END, "human_approval"}
    /\ WithinLimit
    /\ result' = [kind |-> "state",
                  messages |-> messages,
                  page_map |-> graph.page_map,
                  browser_action |-> graph.browser_action,
                  task_complete |-> graph.task_complete]
    /\ pc' = "cleanup"
    /\ UNCHANGED <<ui, inputs, components, node_context, use_real_browser, state, messages, graph, step, counters,
                   sessions, tool_log, trace>>

(***************************************************************************)
(* browser_agent.py: the graph of create_workflow                          *)
(***************************************************************************)
should_request_approval(s) == IF s.browser_action # "" THEN "human_approval" ELSE "agent"

should_continue_to_tool(msgs) ==
    IF "tool_calls" \in DOMAIN msgs[Len(msgs)] THEN "tool" ELSE END

should_end_workflow(s) == IF s.task_complete THEN END ELSE "security_check"

\* security_check_node(state), which the wrapper calls without a context
security_check_node(s) ==
    [s EXCEPT !.page_map = MockPage,
              !.browser_action = IF s.browser_action # "" THEN "" ELSE s.browser_action]

SecurityCheck ==
    /\ pc = "security_check"
    /\ WithinLimit
    /\ graph' = security_check_node(graph)
    /\ pc' = should_request_approval(graph')
    /\ step' = step + 1
    /\ trace' = Append(trace, "security_check")
    /\ node_context' = None       \* security_check_wrapper calls security_check_node(state)
    /\ UNCHANGED <<ui, inputs, components, use_real_browser, state, messages, counters, sessions,
                   tool_log, result>>

\* decision_engine.make_decision once the messages are valid: the answers it
\* can give.  The Anthropic call either answers or fails, and a failure falls
\* back to the rules.
make_decision(msgs, page_context) ==
    (IF ai_available THEN AIDecisions ELSE {})
    \cup {_make_fallback_decision(msgs, page_context)}

\* an agent node whose content branch leaves task_complete as it was
agent_node_content_open(decision, msgs, s) ==
    IF "tool_calls" \in DOMAIN decision
    THEN LET tool_call == decision.tool_calls[1]
         IN  <<Append(msgs, AssistantToolMessage(tool_call)),
               IF should_require_approval(enable_security_checks,
                                          tool_call.name, tool_call.args)
               THEN get_approval_message(tool_call.name, tool_call.args)
               ELSE s.browser_action,
               s.task_complete>>
    ELSE IF Contains(Upper(decision.content), "FINISH")
    THEN <<Append(msgs, AssistantMessage("Task completed successfully")),
           s.browser_action, TRUE>>
    ELSE <<Append(msgs, AssistantMessage(decision.content)), s.browser_action,
           s.task_complete>>

\* agent_node from the decision on: <<messages, browser_action, task_complete>>
agent_node(decision, msgs, s) ==
    IF "tool_calls" \in DOMAIN decision
    THEN LET tool_call == decision.tool_calls[1]
         IN  <<Append(msgs, AssistantToolMessage(tool_call)),
               IF should_require_approval(enable_security_checks,
                                          tool_call.name, tool_call.args)
               THEN get_approval_message(tool_call.name, tool_call.args)
               ELSE s.browser_action,
               s.task_complete>>
    ELSE IF Contains(Upper(decision.content), "FINISH")
    THEN <<Append(msgs, AssistantMessage("Task completed successfully")),
           s.browser_action, TRUE>>
    ELSE <<Append(msgs, AssistantMessage(decision.content)), s.browser_action, TRUE>>

Agent ==
    /\ pc = "agent"
    /\ WithinLimit
    /\ ~InvalidMessages(messages)
    /\ \E decision \in make_decision(messages, graph.page_map) :
        LET out == agent_node(decision, messages, graph)
        IN  /\ messages' = out[1]
            /\ graph' = [graph EXCEPT !.browser_action = out[2], !.task_complete = out[3]]
            /\ pc' = should_continue_to_tool(out[1])
    /\ step' = step + 1
    /\ trace' = Append(trace, "agent")
    /\ UNCHANGED <<ui, inputs, components, node_context, use_real_browser, state, counters, sessions, tool_log, result>>

\* make_decision raises ValidationError out of agent_node and of ainvoke
AgentValidationError ==
    /\ pc = "agent"
    /\ WithinLimit
    /\ InvalidMessages(messages)
    /\ WorkflowFailed(Exception("ValidationError", ValidationMessage(messages)))
    /\ trace' = Append(trace, "agent")
    /\ UNCHANGED <<ui, inputs, components, node_context, use_real_browser, messages, graph, step,
                   browser_creation_attempts, cleanup_attempts, sessions, tool_log>>

\* a tool node that puts its message in the place of the tool call
ToolAnswersInPlace ==
    /\ pc = "tool"
    /\ WithinLimit
    /\ LET last_message == messages[Len(messages)]
       IN  IF "tool_calls" \in DOMAIN last_message
           THEN LET tool_call == last_message.tool_calls[1]
                    outcome   == execute_tool_mock(tool_call.name, tool_call.args)
                IN  /\ tool_log' = Append(tool_log, tool_call)
                    /\ messages' = [messages EXCEPT ![Len(messages)] =
                           ToolMessage(Get(tool_call, "id", "1"),
                                       "Tool " \o tool_call.name
                                       \o " executed with result: " \o outcome.text)]
                    /\ graph' = [graph EXCEPT !.task_complete = TRUE]
           ELSE UNCHANGED <<tool_log, messages, graph>>
    /\ pc' = should_end_workflow(graph')
    /\ step' = step + 1
    /\ trace' = Append(trace, "tool")
    /\ node_context' = None
    /\ UNCHANGED <<ui, inputs, components, use_real_browser, state, counters, sessions, result>>

\* tool_node(state), which the wrapper calls without a context
Tool ==
    /\ pc = "tool"
    /\ WithinLimit
    /\ LET last_message == messages[Len(messages)]
       IN  IF "tool_calls" \in DOMAIN last_message
           THEN LET tool_call == last_message.tool_calls[1]
                    outcome   == execute_tool_mock(tool_call.name, tool_call.args)
                IN  /\ tool_log' = Append(tool_log, tool_call)
                    /\ messages' = Append(messages,
                           ToolMessage(Get(tool_call, "id", "1"),
                                       "Tool " \o tool_call.name
                                       \o " executed with result: " \o outcome.text))
                    /\ graph' = [graph EXCEPT !.task_complete = TRUE]
           ELSE UNCHANGED <<tool_log, messages, graph>>
    /\ pc' = should_end_workflow(graph')
    /\ step' = step + 1
    /\ trace' = Append(trace, "tool")
    /\ node_context' = None       \* tool_wrapper calls tool_node(state)
    /\ UNCHANGED <<ui, inputs, components, use_real_browser, state, counters, sessions, result>>

(***************************************************************************)
(* browser_agent.py: run_agent_workflow, the finally clause                *)
(***************************************************************************)
\* a finally clause that leaves the session alone after a failed workflow
FinishAlsoAfterFailure ==
    /\ pc = "cleanup"
    /\ browser_context = None \/ result.kind = "error"
    /\ pc' = "done"
    /\ UNCHANGED <<ui, inputs, components, node_context, use_real_browser, state, messages, graph, step, counters,
                   sessions, tool_log, trace, result>>

\* if browser_context: false, nothing to clean up
Finish ==
    /\ pc = "cleanup"
    /\ browser_context = None
    /\ pc' = "done"
    /\ UNCHANGED <<ui, inputs, components, node_context, use_real_browser, state, messages, graph, step, counters,
                   sessions, tool_log, trace, result>>

\* a cleanup loop that raises once its attempts are used up
CloseBrowserOrRaise ==
    /\ pc = "cleanup"
    /\ browser_context # None
    /\ cleanup_attempts < max_cleanup_attempts
    /\ \E ok \in BOOLEAN :
        IF ok
        THEN /\ closed' = closed \cup {browser_context}
             /\ pc' = "done"
             /\ UNCHANGED <<cleanup_attempts, result>>
        ELSE /\ cleanup_attempts' = cleanup_attempts + 1
             /\ pc' = IF cleanup_attempts + 1 >= max_cleanup_attempts
                      THEN "done" ELSE "cleanup"
             /\ result' = IF cleanup_attempts + 1 >= max_cleanup_attempts
                          THEN [kind |-> "raised", error_type |-> "BrowserError"]
                          ELSE result
             /\ UNCHANGED closed
    /\ UNCHANGED <<ui, inputs, components, node_context, use_real_browser, state, messages, graph, step,
                   browser_creation_attempts, workflow_attempts, browser_context,
                   created, tool_log, trace>>

\* one turn of the cleanup loop
CloseBrowser ==
    /\ pc = "cleanup"
    /\ browser_context # None
    /\ cleanup_attempts < max_cleanup_attempts
    /\ \E ok \in BOOLEAN :
        IF ok
        THEN /\ closed' = closed \cup {browser_context}
             /\ pc' = "done"
             /\ UNCHANGED cleanup_attempts
        ELSE /\ cleanup_attempts' = cleanup_attempts + 1
             /\ pc' = IF cleanup_attempts + 1 >= max_cleanup_attempts
                      THEN "done" ELSE "cleanup"
             /\ UNCHANGED closed
    /\ UNCHANGED <<ui, inputs, components, node_context, use_real_browser, state, messages, graph, step,
                   browser_creation_attempts, workflow_attempts, browser_context,
                   created, tool_log, trace, result>>

(***************************************************************************)
(* agent_ui.py: the approval prompt that follows a run started from the UI *)
(***************************************************************************)
\* execute_agent_task finds browser_action set in the returned state, and
\* handle_agent_execution records the pending approval
RequestApproval ==
    /\ pc = "done"
    /\ result.kind \in {"state", "error"}
    /\ ~ui.pending_approval
    /\ ui.last_message = "none"
    /\ result.browser_action # ""
    /\ enable_security_checks
    /\ ui' = [ui EXCEPT !.pending_approval = TRUE, !.pending_action = result.browser_action]
    /\ pc' = "approval"
    /\ UNCHANGED <<inputs, components, node_context, use_real_browser, state, messages, graph, step, counters,
                   sessions, tool_log, trace, result>>

\* handle_approval_response(approved): the Approve and the Deny button
handle_approval_response ==
    /\ pc = "approval"
    /\ ui.pending_approval
    /\ \E approved \in BOOLEAN :
        ui' = [pending_approval |-> FALSE,
               pending_action   |-> "",
               task_complete    |-> IF approved THEN TRUE ELSE ui.task_complete,
               last_message     |-> IF approved THEN "approved" ELSE "denied"]
    /\ pc' = "answered"
    /\ UNCHANGED <<inputs, components, node_context, use_real_browser, state, messages, graph, step, counters,
                   sessions, tool_log, trace, result>>

Next ==
    \/ Validate
    \/ CreateBrowser
    \/ StartAttempt
    \/ SecurityCheck
    \/ Agent
    \/ AgentValidationError
    \/ Tool
    \/ GraphRecursionError
    \/ Return
    \/ Finish
    \/ CloseBrowser
    \/ RequestApproval
    \/ handle_approval_response

Spec == Init /\ [][Next]_vars

\* the guard of Agent: the agent node is next, within the limit, and the
\* messages pass _validate_messages
AgentEnabled == pc = "agent" /\ WithinLimit /\ ~InvalidMessages(messages)

\* asyncio.run drives the coroutine until it returns: a step of the run that
\* stays possible is eventually taken.  The buttons of the approval prompt are
\* the user's to press, so they get no fairness.  For Agent weak fairness is
\* written out with AgentEnabled as its enabling condition.
FairSpec ==
    /\ Spec
    /\ WF_vars(Validate)
    /\ WF_vars(CreateBrowser)
    /\ WF_vars(StartAttempt)
    /\ WF_vars(SecurityCheck)
    /\ WF_vars(AgentValidationError)
    /\ WF_vars(Tool)
    /\ WF_vars(GraphRecursionError)
    /\ WF_vars(Return)
    /\ WF_vars(Finish)
    /\ WF_vars(CloseBrowser)
    /\ ([]<>(~AgentEnabled) \/ []<><<Agent>>_vars)

(***************************************************************************)
(* decision_engine.py: make_decision called on its own                     *)
(***************************************************************************)
\* calls of make_decision in one behaviour
MaxCalls == 3

\* a snapshot with a form and an input field
FormPage == "<html><body><form><input name='q'></form></body></html>"

\* the snapshots the engine is called with
EnginePages == {MockPage, FormPage}

\* conversations _validate_messages rejects
BadConversations ==
    {<<>>,
     <<UserMessage("   ")>>,
     <<UserMessage("go on"), AssistantToolMessage(ToolCall("get_page_state", EmptyArgs))>>,
     <<NonStrMessage("user", "int", "42")>>}

\* the (messages, page_context) pairs the engine is called with
EngineInputs ==
    (BadConversations \X {MockPage})
    \cup ({<<UserMessage("type text, scroll to find")>>} \X EnginePages)
    \cup {<<(<<UserMessage("pay now to complete purchase")>>), MockPage>>,
          <<(<<UserMessage("open the page"), AssistantMessage("ok"),
               UserMessage("tap confirm, buy on Amazon")>>), FormPage>>}

\* anthropic_client.make_decision either raises or answers
AIOutcomes == {[fails |-> TRUE],
               [fails |-> FALSE,
                decision |-> ToolDecision(ToolCall("click_element", [selector |-> "a.next"]))]}

\* a rule engine whose answer depends on the calls made before
rule_based_with_memory(msgs, page_context) ==
    IF calls = <<>> THEN _make_fallback_decision(msgs, page_context)
    ELSE ContentDecision("FINISH")

\* return await self._make_fallback_decision(messages, page_context)
rule_based(msgs, page_context) == _make_fallback_decision(msgs, page_context)

\* an engine that stops asking the AI provider once a call of it has failed
make_decision_sticky(msgs, page_context, ai) ==
    LET failed_before == \E i \in 1..Len(calls) : calls[i].ai_raised
        call == [messages |-> msgs, page_context |-> page_context]
    IN  IF InvalidMessages(msgs)
        THEN call @@ [ai_tried |-> FALSE, ai_raised |-> FALSE, rule_used |-> FALSE,
                      kind |-> "raised",
                      error |-> Exception("ValidationError", ValidationMessage(msgs))]
        ELSE IF ai_available /\ ~failed_before /\ ~ai.fails
        THEN call @@ [ai_tried |-> TRUE, ai_raised |-> FALSE, rule_used |-> FALSE,
                      kind |-> "returned", decision |-> ai.decision]
        ELSE call @@ [ai_tried |-> ai_available /\ ~failed_before,
                      ai_raised |-> ai_available /\ ~failed_before,
                      rule_used |-> TRUE,
                      kind |-> "returned", decision |-> rule_based(msgs, page_context)]

\* make_decision(messages, page_context) with the outcome ai of the Anthropic
\* call, should it be made: the record of the call, with the providers it
\* consulted, whether the Anthropic call raised, and what it returned or raised
make_decision_call(msgs, page_context, ai) ==
    LET call == [messages |-> msgs, page_context |-> page_context]
    IN  IF InvalidMessages(msgs)
        THEN call @@ [ai_tried |-> FALSE, ai_raised |-> FALSE, rule_used |-> FALSE,
                      kind |-> "raised",
                      error |-> Exception("ValidationError", ValidationMessage(msgs))]
        ELSE IF ai_available /\ ~ai.fails
        THEN call @@ [ai_tried |-> TRUE, ai_raised |-> FALSE, rule_used |-> FALSE,
                      kind |-> "returned", decision |-> ai.decision]
        ELSE call @@ [ai_tried |-> ai_available, ai_raised |-> ai_available,
                      rule_used |-> TRUE,
                      kind |-> "returned", decision |-> rule_based(msgs, page_context)]

\* the variables of a run, before any run has started
NoRun ==
    /\ initial_task = ""
    /\ max_iterations = DefaultIterations
    /\ use_real_browser = FALSE
    /\ start_supersteps = 0
    /\ pc = "call"
    /\ state = [page_map |-> "", browser_action |-> "", task_complete |-> FALSE]
    /\ graph = [page_map |-> "", browser_action |-> "", task_complete |-> FALSE]
    /\ messages = <<>>
    /\ step = 0
    /\ browser_context = None
    /\ browser_creation_attempts = 0
    /\ workflow_attempts = 0
    /\ cleanup_attempts = 0
    /\ created = 0
    /\ closed = {}
    /\ tool_log = <<>>
    /\ trace = <<>>
    /\ node_context = None
    /\ result = [kind |-> "none"]
    /\ ui = [pending_approval |-> FALSE, pending_action |-> "", task_complete |-> FALSE,
             last_message |-> "none"]

run == <<initial_task, max_iterations, use_real_browser, enable_security_checks,
         ai_available, pc, state, messages, graph, step, browser_context,
         browser_creation_attempts, workflow_attempts, cleanup_attempts,
         created, closed, tool_log, trace, result, start_supersteps, ui,
         node_context>>

EngineInit ==
    /\ NoRun
    /\ enable_security_checks = TRUE
    /\ ai_available \in BOOLEAN
    /\ calls = <<>>
    /\ probe = [called |-> FALSE]
    /\ task_store = NoTasks
    /\ response = [request |-> "none"]
    /\ task_request = NoRequest
    /\ runs = NoRuns

\* one call of decision_engine.make_decision
CallMakeDecision ==
    /\ Len(calls) < MaxCalls
    /\ \E input \in EngineInputs :
        \E ai \in (IF ai_available /\ ~InvalidMessages(input[1])
                   THEN AIOutcomes ELSE {[fails |-> TRUE]}) :
            calls' = Append(calls, make_decision_call(input[1], input[2], ai))
    /\ UNCHANGED <<run, probe, task_store, response, task_request, runs>>

EngineNext == CallMakeDecision

EngineSpec == EngineInit /\ [][EngineNext]_vars

(***************************************************************************)
(* decision_engine.py: the engine without an API key, every call answered  *)
(* by _make_fallback_decision                                              *)
(***************************************************************************)
\* contents of the last message
RuleTexts ==
    {"pay now to complete purchase", "find pay on google", "type text, scroll to find",
     "tap confirm, buy on Amazon", "click the submit button", "buy the red shoes",
     "scroll up 300 pixels", "search for cheap flights", "open youtube", "hello there",
     "enter 'hello' in the box", "stop", "Amazon deals", "checkout then scroll down",
     "done, now go to github", "fill the form and press submit", "what is this page",
     "purchase and finish", "type 'hello' into the text field"}

\* the conversations that end with the content text: the task alone, a later
\* user message, and an assistant message after a task that names a website
RuleConversations ==
    UNION {{<<UserMessage(text)>>,
            <<UserMessage("open the page"), AssistantMessage("ok"), UserMessage(text)>>,
            <<UserMessage("visit ebay"), AssistantMessage(text)>>} : text \in RuleTexts}

RuleInit ==
    /\ NoRun
    /\ enable_security_checks = TRUE
    /\ ai_available = FALSE
    /\ calls = <<>>
    /\ probe = [called |-> FALSE]
    /\ task_store = NoTasks
    /\ response = [request |-> "none"]
    /\ task_request = NoRequest
    /\ runs = NoRuns

\* one call of make_decision, answered by the rule-based provider
CallRuleBased ==
    /\ calls = <<>>
    /\ \E msgs \in RuleConversations, page_context \in EnginePages :
        calls' = <<make_decision_call(msgs, page_context, [fails |-> TRUE])>>
    /\ UNCHANGED <<run, probe, task_store, response, task_request, runs>>

RuleNext == CallRuleBased

RuleSpec == RuleInit /\ [][RuleNext]_vars

(***************************************************************************)
(* security.py: the security manager called on its own                     *)
(***************************************************************************)
\* the five tools of get_browser_tools and a name that is none of them
BrowserTools == {"click_element", "type_text", "get_page_state", "scroll_page",
                 "navigate_to_website"}

ProbeTools == BrowserTools \cup {"fly_away"}

\* the argument mappings the security manager is called with
ProbeArgs ==
    {EmptyArgs,
     [selector |-> "#pay-button"],
     [selector |-> "button.CHECKOUT"],
     [selector |-> "a.next"],
     [selector |-> "form button[type='submit']"],
     [selector |-> "#note", text |-> "time to purchase a ticket"],
     [selector |-> "#login", text |-> "my password"],
     [selector |-> "#q", text |-> "hello"],
     [direction |-> "down", amount |-> 500],
     [website_name |-> "paypal"],
     [website_name |-> "amazon"]}

\* f"{tool_name} {str(tool_args)}"
action_description(tool_name, tool_args) == tool_name \o " " \o StrArgs(tool_args)

SecurityInit ==
    /\ NoRun
    /\ enable_security_checks \in BOOLEAN
    /\ ai_available = FALSE
    /\ calls = <<>>
    /\ probe = [called |-> FALSE]
    /\ task_store = NoTasks
    /\ response = [request |-> "none"]
    /\ task_request = NoRequest
    /\ runs = NoRuns

\* the security manager is asked about one tool call, as agent_node asks it
CheckCall ==
    /\ \E tool_name \in ProbeTools, tool_args \in ProbeArgs :
        probe' = [called |-> TRUE,
                  tool_name |-> tool_name,
                  tool_args |-> tool_args,
                  destructive |-> is_destructive_action(enable_security_checks,
                                      action_description(tool_name, tool_args)),
                  flagged |-> should_require_approval(enable_security_checks,
                                                      tool_name, tool_args),
                  browser_action |-> agent_node(ToolDecision(ToolCall(tool_name, tool_args)),
                                                <<>>, state)[2]]
    /\ UNCHANGED <<run, calls, task_store, response, task_request, runs>>

SecurityNext == CheckCall

SecuritySpec == SecurityInit /\ [][SecurityNext]_vars

(***************************************************************************)
(* tools.py and browser_agent.py: execute_tool and the graph's nodes       *)
(* called on their own, with or without a session                          *)
(***************************************************************************)
\* a live session
LiveContext == 1

\* the cleaned_html get_interactive_elements returns for the live page
LivePage == "<html><body><a href='/next'>Next</a></body></html>"

\* what the browser does when a handler uses the session: the call succeeds
\* or raises a BrowserError
HandlerOutcomes == {"ok", "fails"}

Returns(value) == [kind |-> "returned", value |-> value]

Raises(error_type) == [kind |-> "raised", error_type |-> error_type]

\* the wrapper of the tool called as execute_tool calls it: what it returns
\* or raises.  A wrapper returns its mock result without a session and turns
\* every exception of its handler into False, or into the mock snapshot.
wrapper_call(tool_name, tool_args, context, outcome) ==
    IF tool_name = "get_page_state"
    THEN Returns([ok |-> TRUE,
                  text |-> IF context # None /\ outcome = "ok" THEN LivePage ELSE MockPage])
    ELSE IF ~ArgsFit(tool_name, tool_args) THEN Raises("TypeError")
    ELSE IF context = None \/ outcome = "ok" THEN Returns([ok |-> TRUE, text |-> "True"])
    ELSE Returns([ok |-> FALSE, text |-> "False"])

\* execute_tool(tool_name, tool_args, context)
execute_tool(tool_name, tool_args, context, outcome) ==
    IF tool_name \notin DOMAIN ToolParams \cup {"get_page_state"}
    THEN Returns([ok |-> FALSE, text |-> "False"])
    ELSE IF wrapper_call(tool_name, tool_args, context, outcome).kind = "raised"
    THEN Returns([ok |-> FALSE, text |-> "False"])
    ELSE wrapper_call(tool_name, tool_args, context, outcome)

\* tool_node(state, context): the state and the conversation it returns
\* together with what execute_tool gave it
tool_node(s, msgs, context, outcome) ==
    LET last_message == msgs[Len(msgs)]
    IN  IF "tool_calls" \notin DOMAIN last_message
        THEN [state |-> s, messages |-> msgs, result |-> Returns([ok |-> TRUE, text |-> ""])]
        ELSE LET tool_call == last_message.tool_calls[1]
                 r == execute_tool(tool_call.name, tool_call.args, context, outcome)
             IN  [state |-> [s EXCEPT
                        !.page_map = IF tool_call.name = "get_page_state" /\ context # None
                                     THEN wrapper_call("get_page_state", EmptyArgs,
                                                       context, outcome).value.text
                                     ELSE @,
                        !.task_complete = IF r.kind = "returned" THEN TRUE ELSE @],
                  messages |-> IF r.kind = "returned"
                               THEN Append(msgs, ToolMessage(Get(tool_call, "id", "1"),
                                        "Tool " \o tool_call.name
                                        \o " executed with result: " \o r.value.text))
                               ELSE msgs,
                  result |-> r]

\* security_check_node(state, context)
security_check_node_in(s, context, outcome) ==
    [security_check_node(s) EXCEPT
        !.page_map = IF context = None THEN MockPage
                     ELSE wrapper_call("get_page_state", EmptyArgs, context, outcome).value.text]

\* the states the nodes are called on
NodeStates ==
    {[page_map |-> MockPage, browser_action |-> action, task_complete |-> FALSE] :
        action \in {"", "Click on element: #pay-button"}}

NodeInit ==
    /\ NoRun
    /\ enable_security_checks = TRUE
    /\ ai_available = FALSE
    /\ calls = <<>>
    /\ probe = [called |-> FALSE]
    /\ task_store = NoTasks
    /\ response = [request |-> "none"]
    /\ task_request = NoRequest
    /\ runs = NoRuns

\* tool_node is called on a conversation that ends with a tool call
CallToolNode ==
    /\ \E tool_name \in ProbeTools, tool_args \in ProbeArgs, s \in NodeStates,
          context \in {None, LiveContext} :
        \E outcome \in (IF context = None THEN {"ok"} ELSE HandlerOutcomes) :
            LET msgs == <<UserMessage("go on"),
                          AssistantToolMessage(ToolCall(tool_name, tool_args))>>
                out == tool_node(s, msgs, context, outcome)
            IN  probe' = [called |-> TRUE, node |-> "tool",
                          tool_name |-> tool_name, tool_args |-> tool_args,
                          context |-> context, outcome |-> outcome,
                          before |-> s, after |-> out.state,
                          messages |-> out.messages, result |-> out.result,
                          next |-> should_end_workflow(out.state)]
    /\ UNCHANGED <<run, calls, task_store, response, task_request, runs>>

\* security_check_node is called, and the edge out of it is taken
CallSecurityCheckNode ==
    /\ \E s \in NodeStates, context \in {None, LiveContext} :
        \E outcome \in (IF context = None THEN {"ok"} ELSE HandlerOutcomes) :
            LET after == security_check_node_in(s, context, outcome)
            IN  probe' = [called |-> TRUE, node |-> "security_check",
                          context |-> context, outcome |-> outcome,
                          before |-> s, after |-> after,
                          next |-> should_request_approval(after)]
    /\ UNCHANGED <<run, calls, task_store, response, task_request, runs>>

NodeNext == CallToolNode \/ CallSecurityCheckNode

NodeSpec == NodeInit /\ [][NodeNext]_vars

(***************************************************************************)
(* browser_manager.py: health_check                                        *)
(***************************************************************************)
\* what a step of the health check does
CheckOutcomes == {"ok", "fails"}

NoChecks == [name \in {} |-> ""]

\* health_status["checks"] at the end of the try block, step by step
health_checks(creation, navigation, cleanup) ==
    IF creation = "fails" THEN NoChecks
    ELSE [name \in {"browser_creation", "navigation"}
                   \cup (IF cleanup = "ok" THEN {"browser_cleanup"} ELSE {}) |->
            IF name = "navigation" /\ navigation = "fails"
            THEN "fail: Navigation failed" ELSE "pass"]

\* all(status == "pass" for status in checks.values()
\*     if isinstance(status, str) and not status.startswith("fail"))
all_checks_pass(checks) ==
    \A name \in {n \in DOMAIN checks : Prefix(checks[n], 4) # "fail"} : checks[name] = "pass"

\* health_check()
health_check(creation, navigation, cleanup) ==
    LET checks == health_checks(creation, navigation, cleanup)
        raised == creation = "fails" \/ cleanup = "fails"
    IN  [status |-> IF ~all_checks_pass(checks) THEN "degraded"
                     ELSE IF raised THEN "unhealthy" ELSE "healthy",
         checks |-> checks]

(***************************************************************************)
(* server.py: the task endpoints and the background execution of a task    *)
(***************************************************************************)
\* the task descriptions of the requests
ServerTasks == {"  ", "Click the submit button on the page", " buy the red shoes "}

\* max_iterations of the requests; a request without it gets the default
ServerIterations == {0, 1, 2, DefaultIterations}

\* str(uuid.uuid4()) of the task created, and an id no task has
NewTaskId == "t1"

TaskIds == {NewTaskId, "t9"}

\* the record create_task stores
NewTask ==
    [status |-> "running", completed_at |-> "None", result |-> [kind |-> "none"],
     error |-> "None", logs |-> <<"info">>]

ServerInit ==
    /\ initial_task \in ServerTasks
    /\ max_iterations \in ServerIterations
    /\ enable_security_checks = TRUE
    /\ ai_available = FALSE               \* the server runs without an API key
    /\ use_real_browser \in BOOLEAN
    /\ start_supersteps \in StartSupersteps
    /\ pc = "request"
    /\ state = [page_map |-> "", browser_action |-> "", task_complete |-> FALSE]
    /\ graph = [page_map |-> "", browser_action |-> "", task_complete |-> FALSE]
    /\ messages = <<>>
    /\ step = 0
    /\ browser_context = None
    /\ browser_creation_attempts = 0
    /\ workflow_attempts = 0
    /\ cleanup_attempts = 0
    /\ created = 0
    /\ closed = {}
    /\ tool_log = <<>>
    /\ trace = <<>>
    /\ node_context = None
    /\ result = [kind |-> "none"]
    /\ ui = [pending_approval |-> FALSE, pending_action |-> "", task_complete |-> FALSE,
             last_message |-> "none"]
    /\ calls = <<>>
    /\ probe = [called |-> FALSE]
    /\ task_store = NoTasks
    /\ response = [request |-> "none"]
    /\ task_request \in {[sent |-> TRUE, enable_security |-> enable_security] :
                            enable_security \in BOOLEAN}
    /\ runs = NoRuns

\* everything of the run but the place it is at
run_data == <<initial_task, max_iterations, use_real_browser, enable_security_checks,
              ai_available, state, messages, graph, step, browser_context,
              browser_creation_attempts, workflow_attempts, cleanup_attempts,
              created, closed, tool_log, trace, result, start_supersteps, ui,
              node_context>>

\* POST /tasks: the request model is validated, then create_task stores the
\* record and queues execute_task_background
create_task ==
    /\ pc = "request"
    /\ IF max_iterations < MinIterations \/ max_iterations > MaxIterations
       THEN /\ response' = [request |-> "create", status_code |-> 422]
            /\ pc' = "rejected"
            /\ UNCHANGED task_store
       ELSE IF Strip(initial_task) = ""
       THEN /\ response' = [request |-> "create", status_code |-> 400]
            /\ pc' = "rejected"
            /\ UNCHANGED task_store
       ELSE /\ task_store' = [task_id \in DOMAIN task_store \cup {NewTaskId} |->
                                IF task_id = NewTaskId THEN NewTask
                                ELSE task_store[task_id]]
            /\ response' = [request |-> "create", status_code |-> 200,
                            task_id |-> NewTaskId]
            /\ pc' = "call"
    /\ UNCHANGED <<run_data, calls, probe, task_request, runs>>

\* DELETE /tasks/{task_id} that marks a completed record too
cancel_task_any_status ==
    /\ \E task_id \in TaskIds :
        IF task_id \notin DOMAIN task_store
        THEN /\ response' = [request |-> "cancel", task_id |-> task_id,
                             status_code |-> 404]
             /\ UNCHANGED task_store
        ELSE /\ task_store' = [task_store EXCEPT
                                 ![task_id].status = "cancelled",
                                 ![task_id].completed_at = "now",
                                 ![task_id].error = "Task cancelled by user"]
             /\ response' = [request |-> "cancel", task_id |-> task_id,
                             status_code |-> 200]
    /\ UNCHANGED <<run, calls, probe, task_request, runs>>

\* DELETE /tasks/{task_id}
cancel_task ==
    /\ \E task_id \in TaskIds :
        IF task_id \notin DOMAIN task_store
        THEN /\ response' = [request |-> "cancel", task_id |-> task_id,
                             status_code |-> 404]
             /\ UNCHANGED task_store
        ELSE IF task_store[task_id].status = "completed"
        THEN /\ response' = [request |-> "cancel", task_id |-> task_id,
                             status_code |-> 400]
             /\ UNCHANGED task_store
        ELSE /\ task_store' = [task_store EXCEPT
                                 ![task_id].status = "cancelled",
                                 ![task_id].completed_at = "now",
                                 ![task_id].error = "Task cancelled by user"]
             /\ response' = [request |-> "cancel", task_id |-> task_id,
                             status_code |-> 200]
    /\ UNCHANGED <<run, calls, probe, task_request, runs>>

\* execute_task_background after run_agent_workflow has returned or raised
execute_task_background ==
    /\ pc = "done"
    /\ pc' = "stored"
    /\ task_store' = IF result.kind # "raised"
                     THEN [task_store EXCEPT
                              ![NewTaskId].status = "completed",
                              ![NewTaskId].completed_at = "now",
                              ![NewTaskId].result = result,
                              ![NewTaskId].logs = Append(@, "success")]
                     ELSE [task_store EXCEPT
                              ![NewTaskId].status = "failed",
                              ![NewTaskId].completed_at = "now",
                              ![NewTaskId].error = "BrowserFreak error",
                              ![NewTaskId].logs = Append(@, "error")]
    /\ UNCHANGED <<run_data, calls, probe, response, task_request, runs>>

\* GET /health
health_endpoint ==
    /\ \E creation \in CheckOutcomes, navigation \in CheckOutcomes,
          cleanup \in CheckOutcomes :
        response' = [request |-> "health",
                     creation |-> creation,
                     navigation |-> IF creation = "ok" THEN navigation ELSE "none",
                     cleanup |-> IF creation = "ok" THEN cleanup ELSE "none",
                     browser_health |-> health_check(creation, navigation, cleanup)]
    /\ UNCHANGED <<run, calls, probe, task_store, task_request, runs>>

ServerNext ==
    \/ create_task
    \/ cancel_task
    \/ execute_task_background
    \/ health_endpoint
    \/ Validate
    \/ CreateBrowser
    \/ StartAttempt
    \/ SecurityCheck
    \/ Agent
    \/ AgentValidationError
    \/ Tool
    \/ GraphRecursionError
    \/ Return
    \/ Finish
    \/ CloseBrowser

ServerSpec == ServerInit /\ [][ServerNext]_vars

(***************************************************************************)
(* server.py and browser_agent.py: several background tasks at once, each  *)
(* a run of run_agent_workflow in mock mode                                *)
(***************************************************************************)
\* the values str(uuid.uuid4()) gives the tasks created
ConcurrentIds == {"t1", "t2"}

\* the task descriptions and max_iterations of the requests
ConcurrentTasks ==
    {"Click the submit button on the page", "Navigate to amazon and find a chair",
     " buy the red shoes "}

ConcurrentIterations == {1, DefaultIterations}

\* the thread every ainvoke names in its config
thread_id == "default"

\* a single MemorySaver that every compiled graph uses
create_workflow_one_saver(task_id, attempt) == <<"memory", 0>>

\* create_workflow(): the compiled graph, known by the MemorySaver made for it
create_workflow(task_id, attempt) == <<task_id, attempt>>

\* the checkpoint the graph of a run works on
Checkpoint(task_id) == runs.memory[<<runs.of[task_id].app, thread_id>>]

\* the checkpoints with the one of a run's graph replaced
Saved(task_id, checkpoint) ==
    [key \in DOMAIN runs.memory \cup {<<runs.of[task_id].app, thread_id>>} |->
        IF key = <<runs.of[task_id].app, thread_id>> THEN checkpoint
        ELSE runs.memory[key]]

\* step <= recursion_limit for the graph of a run
RunWithinLimit(task_id) == Checkpoint(task_id).step <= runs.of[task_id].max_iterations

\* except Exception as workflow_error, in the run of a task: the run counted,
\* then retried with browser_action reset or ended with the error state
run_failed(r, e) ==
    IF r.workflow_attempts + 1 >= max_workflow_attempts
    THEN [r EXCEPT !.workflow_attempts = @ + 1,
                   !.pc = "done",
                   !.result = [kind |-> "error",
                               messages |-> r.messages,
                               page_map |-> r.state.page_map,
                               browser_action |-> r.state.browser_action,
                               task_complete |-> FALSE,
                               error |-> [error_type |-> e.error_type,
                                          error_message |-> e.error_message,
                                          task |-> Prefix(r.task, TaskPreview),
                                          use_real_browser |-> FALSE,
                                          max_iterations |-> r.max_iterations,
                                          browser_context_created |-> FALSE]]]
    ELSE [r EXCEPT !.workflow_attempts = @ + 1,
                   !.pc = "workflow",
                   !.state.browser_action = ""]

ConcurrentInit ==
    /\ initial_task = ""
    /\ max_iterations = DefaultIterations
    /\ use_real_browser = FALSE
    /\ enable_security_checks = TRUE
    /\ ai_available = FALSE
    /\ start_supersteps \in StartSupersteps
    /\ pc = "call"
    /\ state = [page_map |-> "", browser_action |-> "", task_complete |-> FALSE]
    /\ graph = [page_map |-> "", browser_action |-> "", task_complete |-> FALSE]
    /\ messages = <<>>
    /\ step = 0
    /\ browser_context = None
    /\ browser_creation_attempts = 0
    /\ workflow_attempts = 0
    /\ cleanup_attempts = 0
    /\ created = 0
    /\ closed = {}
    /\ tool_log = <<>>
    /\ trace = <<>>
    /\ node_context = None
    /\ result = [kind |-> "none"]
    /\ ui = [pending_approval |-> FALSE, pending_action |-> "", task_complete |-> FALSE,
             last_message |-> "none"]
    /\ calls = <<>>
    /\ probe = [called |-> FALSE]
    /\ task_store = NoTasks
    /\ response = [request |-> "none"]
    /\ task_request = NoRequest
    /\ runs = NoRuns

\* POST /tasks with a valid request: create_task stores the record under a
\* new id and queues execute_task_background for it
create_task_queued ==
    /\ \E task_id \in ConcurrentIds \ DOMAIN task_store,
          task \in ConcurrentTasks, n \in ConcurrentIterations :
        /\ task_store' = [id \in DOMAIN task_store \cup {task_id} |->
                            IF id = task_id THEN NewTask ELSE task_store[id]]
        /\ runs' = [runs EXCEPT !.of =
                      [id \in DOMAIN runs.of \cup {task_id} |->
                          IF id = task_id
                          THEN [task |-> task, max_iterations |-> n, pc |-> "call",
                                state |-> [page_map |-> "", browser_action |-> "",
                                           task_complete |-> FALSE],
                                messages |-> <<>>, workflow_attempts |-> 0,
                                app |-> <<>>, result |-> [kind |-> "none"]]
                          ELSE runs.of[id]]]
        /\ response' = [request |-> "create", status_code |-> 200, task_id |-> task_id]
    /\ UNCHANGED <<run, calls, probe, task_request>>

\* run_agent_workflow of a background task: the validation and the initial state
RunValidate ==
    /\ \E task_id \in DOMAIN runs.of :
        LET r == runs.of[task_id]
        IN  /\ r.pc = "call"
            /\ runs' = [runs EXCEPT !.of[task_id] =
                  IF EmptyTask(r.task) \/ BadIterations(r.max_iterations)
                  THEN [r EXCEPT !.pc = "done",
                                 !.result = [kind |-> "raised",
                                             error_type |-> "ValidationError"]]
                  ELSE [r EXCEPT !.pc = "workflow",
                                 !.messages = <<UserMessage(Strip(r.task))>>]]
    /\ UNCHANGED <<run, calls, probe, task_store, response, task_request>>

\* app = create_workflow(); app.ainvoke(state, config) starts at the entry point
RunStartAttempt ==
    /\ \E task_id \in DOMAIN runs.of :
        LET r   == runs.of[task_id]
            app == create_workflow(task_id, r.workflow_attempts)
        IN  /\ r.pc = "workflow"
            /\ r.workflow_attempts < max_workflow_attempts
            /\ runs' = [of |-> [runs.of EXCEPT ![task_id].pc = "security_check",
                                               ![task_id].app = app],
                        memory |-> [key \in DOMAIN runs.memory \cup {<<app, thread_id>>} |->
                                      IF key = <<app, thread_id>>
                                      THEN [graph |-> r.state, step |-> start_supersteps]
                                      ELSE runs.memory[key]]]
    /\ UNCHANGED <<run, calls, probe, task_store, response, task_request>>

\* the security_check node of the graph of a run
RunSecurityCheck ==
    /\ \E task_id \in DOMAIN runs.of :
        LET r     == runs.of[task_id]
            after == security_check_node(Checkpoint(task_id).graph)
        IN  /\ r.pc = "security_check"
            /\ RunWithinLimit(task_id)
            /\ runs' = [of |-> [runs.of EXCEPT ![task_id].pc = should_request_approval(after)],
                        memory |-> Saved(task_id, [graph |-> after,
                                                   step |-> Checkpoint(task_id).step + 1])]
    /\ UNCHANGED <<run, calls, probe, task_store, response, task_request>>

\* the agent node of the graph of a run; make_decision raises ValidationError
\* out of it on an invalid conversation
RunAgent ==
    /\ \E task_id \in DOMAIN runs.of :
        LET r == runs.of[task_id]
            g == Checkpoint(task_id).graph
        IN  /\ r.pc = "agent"
            /\ RunWithinLimit(task_id)
            /\ IF InvalidMessages(r.messages)
               THEN runs' = [runs EXCEPT !.of[task_id] =
                        run_failed(r, Exception("ValidationError",
                                                ValidationMessage(r.messages)))]
               ELSE \E decision \in make_decision(r.messages, g.page_map) :
                      LET out == agent_node(decision, r.messages, g)
                      IN  runs' =
                            [of |-> [runs.of EXCEPT
                                       ![task_id].messages = out[1],
                                       ![task_id].pc = should_continue_to_tool(out[1])],
                             memory |-> Saved(task_id,
                                          [graph |-> [g EXCEPT !.browser_action = out[2],
                                                               !.task_complete = out[3]],
                                           step |-> Checkpoint(task_id).step + 1])]
    /\ UNCHANGED <<run, calls, probe, task_store, response, task_request>>

\* the tool node of the graph of a run, which the wrapper calls without a context
RunTool ==
    /\ \E task_id \in DOMAIN runs.of :
        LET r   == runs.of[task_id]
            out == tool_node(Checkpoint(task_id).graph, r.messages, None, "ok")
        IN  /\ r.pc = "tool"
            /\ RunWithinLimit(task_id)
            /\ runs' = [of |-> [runs.of EXCEPT
                                  ![task_id].messages = out.messages,
                                  ![task_id].pc = should_end_workflow(out.state)],
                        memory |-> Saved(task_id, [graph |-> out.state,
                                                   step |-> Checkpoint(task_id).step + 1])]
    /\ UNCHANGED <<run, calls, probe, task_store, response, task_request>>

\* the graph of a run raises GraphRecursionError
RunGraphRecursionError ==
    /\ \E task_id \in DOMAIN runs.of :
        LET r == runs.of[task_id]
        IN  /\ r.pc \in Nodes \cup {END}
            /\ ~RunWithinLimit(task_id)
            /\ runs' = [runs EXCEPT !.of[task_id] =
                  run_failed(r, Exception("GraphRecursionError",
                       "Recursion limit of " \o NatStr(r.max_iterations)
                       \o " reached without hitting a stop condition."))]
    /\ UNCHANGED <<run, calls, probe, task_store, response, task_request>>

\* final_state = await app.ainvoke(...); return dict(final_state), in the run
\* of a task
RunReturn ==
    /\ \E task_id \in DOMAIN runs.of :
        LET r == runs.of[task_id]
            g == Checkpoint(task_id).graph
        IN  /\ r.pc \in {END, "human_approval"}
            /\ RunWithinLimit(task_id)
            /\ runs' = [runs EXCEPT
                          !.of[task_id].pc = "done",
                          !.of[task_id].result =
                              [kind |-> "state",
                               messages |-> r.messages,
                               page_map |-> g.page_map,
                               browser_action |-> g.browser_action,
                               task_complete |-> g.task_complete]]
    /\ UNCHANGED <<run, calls, probe, task_store, response, task_request>>

\* execute_task_background(task_id, ...) after run_agent_workflow has returned
\* or raised
execute_task_background_of ==
    /\ \E task_id \in DOMAIN runs.of :
        LET r == runs.of[task_id]
        IN  /\ r.pc = "done"
            /\ runs' = [runs EXCEPT !.of[task_id].pc = "stored"]
            /\ task_store' = IF r.result.kind # "raised"
                             THEN [task_store EXCEPT
                                      ![task_id].status = "completed",
                                      ![task_id].completed_at = "now",
                                      ![task_id].result = r.result,
                                      ![task_id].logs = Append(@, "success")]
                             ELSE [task_store EXCEPT
                                      ![task_id].status = "failed",
                                      ![task_id].completed_at = "now",
                                      ![task_id].error = "BrowserFreak error",
                                      ![task_id].logs = Append(@, "error")]
    /\ UNCHANGED <<run, calls, probe, response, task_request>>

ConcurrentNext ==
    \/ create_task_queued
    \/ RunValidate
    \/ RunStartAttempt
    \/ RunSecurityCheck
    \/ RunAgent
    \/ RunTool
    \/ RunGraphRecursionError
    \/ RunReturn
    \/ execute_task_background_of

ConcurrentSpec == ConcurrentInit /\ [][ConcurrentNext]_vars

(***************************************************************************)
(* Properties                                                              *)
(***************************************************************************)
\* run_agent_workflow has returned a state, the final one or the error state
Returned == result.kind \in {"state", "error"}

\* the text is empty or holds whitespace only
Blank(text) == \A i \in 1..Len(text) : Ch(text, i) \in Whitespace

\* nothing of the run has happened: no session, no workflow attempt, no node
Untouched ==
    /\ created = 0
    /\ browser_context = None
    /\ browser_creation_attempts = 0
    /\ workflow_attempts = 0
    /\ trace = <<>>
    /\ tool_log = <<>>
    /\ messages = <<>>

ValidationRejected == result = [kind |-> "raised", error_type |-> "ValidationError"]

SubmitTask == "Click the submit button on the page"

PayNowTask == "Click the pay now button to complete purchase"

NavigateTask == "Navigate to amazon and find a chair"

PayPhrase == "pay now to complete purchase"

\* C1: with security checks enabled, a call the Security Gate has flagged is
\* not handed to the tool node while its approval is pending: the workflow
\* never is in the tool-execution state with browser_action set.
C1_FlaggedCallAwaitsApproval ==
    (enable_security_checks /\ pc = "tool") => graph.browser_action = ""

\* C2: once a pending approval has been denied, the run is marked failed and
\* the call the approval was asked for has not been executed.
C2_DeniedCallNeverExecuted ==
    ui.last_message = "denied" =>
        /\ Returned
        /\ ~result.task_complete
        /\ \A i \in 1..Len(tool_log) :
              get_approval_message(tool_log[i].name, tool_log[i].args)
                  # result.browser_action

\* C3: with security checks enabled and the rule-based provider, the run of
\* "Click the pay now button to complete purchase" returns a state whose first
\* decision is a tool call and whose pending approval message contains "pay".
C3_PayNowAwaitsApproval ==
    (/\ initial_task = PayNowTask
     /\ enable_security_checks
     /\ ~ai_available
     /\ result.kind = "state")
    => /\ Len(result.messages) >= 2
       /\ "tool_calls" \in DOMAIN result.messages[2]
       /\ Contains(Lower(result.browser_action), "pay")

\* C4: a task that is empty or whitespace-only is rejected with ValidationError
\* before a browser session is created and before any workflow node runs.
C4_EmptyTaskRejected ==
    (Blank(initial_task) /\ pc # "call") => (ValidationRejected /\ Untouched)

C4_Witness ==
    /\ initial_task = "  "
    /\ use_real_browser
    /\ max_iterations = DefaultIterations
    /\ pc = "done"
    /\ ValidationRejected

\* C5: for a non-empty task, max_iterations outside 1..20 is rejected with
\* ValidationError before anything else happens, and every value inside 1..20,
\* the limits 1 and 20 included, is accepted.
C5_IterationsRange ==
    (~Blank(initial_task) /\ pc # "call") =>
        IF max_iterations < 1 \/ max_iterations > 20
        THEN ValidationRejected /\ Untouched
        ELSE result.kind # "raised" /\ messages # <<>>

C5_Witness ==
    /\ max_iterations = 20
    /\ ~Blank(initial_task)
    /\ pc = "done"
    /\ result.kind = "state"

C7_BoundIsNotAnError ==
    result.kind = "error" => result.error.error_type # "GraphRecursionError"

\* C8: in mock mode with the default max_iterations and the rule-based
\* provider, "Click the submit button on the page" returns task_complete=true
\* and a tool message that names click_element.
C8_SubmitClickCompletes ==
    (/\ initial_task = SubmitTask
     /\ ~use_real_browser
     /\ max_iterations = 5
     /\ ~ai_available
     /\ pc = "done")
    => /\ result.kind = "state"
       /\ result.task_complete
       /\ \E i \in 1..Len(result.messages) :
             /\ result.messages[i].role = "tool"
             /\ Contains(result.messages[i].content, "click_element")

C8_Witness ==
    /\ initial_task = SubmitTask
    /\ ~use_real_browser
    /\ max_iterations = 5
    /\ ~ai_available
    /\ pc = "done"
    /\ tool_log = <<ToolCall("click_element", [selector |-> "button"])>>

\* C9: under the rule-based provider the first decision for "Navigate to
\* amazon and find a chair" is navigate_to_website(website_name="amazon"), and
\* it is the first call the run executes.
C9_AmazonFirstToolCall ==
    (initial_task = NavigateTask /\ ~ai_available /\ Len(messages) >= 2) =>
        LET call == ToolCall("navigate_to_website", [website_name |-> "amazon"])
        IN  /\ messages[2] = AssistantToolMessage(call)
            /\ tool_log # <<>> => tool_log[1] = call

C9_Witness ==
    /\ initial_task = NavigateTask
    /\ ~ai_available
    /\ Len(tool_log) >= 1
    /\ tool_log[1].name = "navigate_to_website"

\* C10: the rule-based decision for "pay now to complete purchase" is the
\* click on the payment selectors.
C10_PaymentRuleWins ==
    (initial_task = PayPhrase /\ ~ai_available /\ Len(messages) >= 2) =>
        messages[2] = AssistantToolMessage(
                          ToolCall("click_element", [selector |-> PaymentSelector]))

(***************************************************************************)
(* The rule-based provider                                                 *)
(***************************************************************************)
\* the nine rules in the order in which they are applied: TRUE when rule k
\* matches
RuleMatches(k, msgs) ==
    LET original == OriginalUserMessage(msgs)
        content == Lower(Strip(msgs[Len(msgs)].content))
    IN  CASE k = 1 -> original # "" /\ website_mention(original)
          [] k = 2 -> finish_task(content)
          [] k = 3 -> submit_click(content)
          [] k = 4 -> payment_action(content)
          [] k = 5 -> text_input(content)
          [] k = 6 -> scroll_action(content)
          [] k = 7 -> navigate_action(content) \/ search_action(content)
          [] k = 8 -> website_mention(content)
          [] k = 9 -> TRUE

\* the decision rule k returns
RuleDecision(k, msgs, page_context) ==
    LET content == Lower(Strip(msgs[Len(msgs)].content))
    IN  CASE k = 1 -> NavigateDecision(website_group0(OriginalUserMessage(msgs)))
          [] k = 2 -> ContentDecision("FINISH")
          [] k = 3 -> ToolDecision(ToolCall("click_element",
                          [selector |-> IF PageHas(page_context, "form")
                                        THEN "button[type='submit']" ELSE "button"]))
          [] k = 4 -> ToolDecision(ToolCall("click_element", [selector |-> PaymentSelector]))
          [] k = 5 -> TypeDecision(content, page_context)
          [] k = 6 -> ScrollDecision(content)
          [] k = 7 -> ToolDecision(ToolCall("get_page_state", EmptyArgs))
          [] k = 8 -> NavigateDecision(website_group0(content))
          [] k = 9 -> ContentDecision(DefaultResponse(page_context))

\* the rules that match, and the first of them
MatchingRules(msgs) == {k \in 1..9 : RuleMatches(k, msgs)}

EarliestRule(msgs) ==
    CHOOSE k \in MatchingRules(msgs) : \A j \in MatchingRules(msgs) : k <= j

\* C11: the rule-based provider returns the decision of the first rule, in the
\* order website mention in the original user message, completion, submit or
\* confirm click, payment or purchase, text entry, scroll, navigation or
\* search, website mention in the last message, no match, that matches the
\* conversation; later rules that match too have no effect.
C11_FirstMatchingRuleWins ==
    \A i \in 1..Len(calls) :
        calls[i].rule_used =>
            calls[i].decision = RuleDecision(EarliestRule(calls[i].messages),
                                             calls[i].messages, calls[i].page_context)

\* a call whose conversation matches the completion, the payment and the
\* no-match rule, answered by the completion rule
C11_Witness ==
    /\ calls # <<>>
    /\ calls[1].rule_used
    /\ MatchingRules(calls[1].messages) = {2, 4, 9}
    /\ calls[1].decision = ContentDecision("FINISH")

C13_DisabledFlagsNothing ==
    (probe.called /\ ~enable_security_checks) =>
        /\ ~probe.flagged
        /\ ~probe.destructive
        /\ probe.browser_action = ""

\* a click on a payment button is checked with the setting off
C13_Witness ==
    /\ probe.called
    /\ ~enable_security_checks
    /\ probe.tool_name = "click_element"
    /\ probe.tool_args = [selector |-> "#pay-button"]
    /\ ~probe.flagged

\* the payment words a description is searched for
PaymentWords == {"pay", "checkout", "purchase"}

\* C14: with settings.agent.enable_security_checks on, a call of one of the
\* five tools is flagged by should_require_approval whenever its description,
\* be it the action description the manager builds or the approval message it
\* renders, contains "pay", "checkout" or "purchase".
C14_PaymentWordsFlagged ==
    (/\ probe.called
     /\ enable_security_checks
     /\ probe.tool_name \in BrowserTools
     /\ \/ ContainsAny(Lower(action_description(probe.tool_name, probe.tool_args)),
                       PaymentWords)
        \/ ContainsAny(Lower(get_approval_message(probe.tool_name, probe.tool_args)),
                       PaymentWords))
    => probe.flagged

\* a navigation to paypal, which no tool-specific test looks at, is flagged
C14_Witness ==
    /\ probe.called
    /\ enable_security_checks
    /\ probe.tool_name = "navigate_to_website"
    /\ probe.tool_args = [website_name |-> "paypal"]
    /\ Contains(get_approval_message(probe.tool_name, probe.tool_args), "pay")
    /\ probe.flagged

(***************************************************************************)
(* Session teardown                                                        *)
(***************************************************************************)
\* the calls of close_browser_context so far, failed and successful
TeardownCalls == cleanup_attempts + Cardinality(closed)

\* the finally clause has done its work on the session the run holds: the
\* session is closed, or max_cleanup_attempts calls have failed
TornDown ==
    \/ closed = {browser_context} /\ cleanup_attempts < max_cleanup_attempts
    \/ closed = {} /\ cleanup_attempts = max_cleanup_attempts

\* run_agent_workflow is over; the approval prompt of the UI may follow
RunOver == pc \in {"done", "approval", "answered"}

C16_TeardownFailureKeepsResult ==
    /\ [][(pc = "cleanup" \/ RunOver) => (result' = result /\ messages' = messages)]_vars
    /\ [](pc = "cleanup" => Returned)
    /\ []((RunOver /\ cleanup_attempts = max_cleanup_attempts) =>
            (Returned /\ result.messages = messages))

\* a run that completed its task and whose teardown failed three times
C16_Witness ==
    /\ pc = "done"
    /\ cleanup_attempts = max_cleanup_attempts
    /\ closed = {}
    /\ result.kind = "state"
    /\ result.task_complete

(***************************************************************************)
(* Environment creation                                                    *)
(***************************************************************************)
\* every turn of the creation loop has failed
CreationExhausted == browser_creation_attempts = max_browser_attempts

\* C17: when all max_browser_attempts creation attempts have failed the run
\* goes on in mock mode: it holds no session and has left the creation loop,
\* it ends by returning what the workflow produced, the graph's nodes having
\* run, and close_browser_context is never called.
C17_CreationFailureFallsBackToMock ==
    CreationExhausted =>
        /\ ~use_real_browser
        /\ browser_context = None
        /\ pc # "create_browser"
        /\ TeardownCalls = 0
        /\ result.kind # "raised"
        /\ RunOver => (Returned /\ trace # <<>> /\ result.messages = messages)

\* a run whose three creation attempts failed after the session was made,
\* and which completed its task in mock mode
C17_Witness ==
    /\ CreationExhausted
    /\ created = max_browser_attempts
    /\ pc = "done"
    /\ result.kind = "state"
    /\ result.task_complete
    /\ tool_log # <<>>

(***************************************************************************)
(* Errors of the workflow                                                  *)
(***************************************************************************)
\* the exception that escapes the workflow execution in the current step:
\* the graph is past its recursion limit, or make_decision rejects the
\* conversation
Escaping ==
    IF ~WithinLimit
    THEN Exception("GraphRecursionError", RecursionLimitMessage)
    ELSE Exception("ValidationError", ValidationMessage(messages))

\* head is the first n characters of text, all of it if text is shorter
IsHead(head, text, n) ==
    /\ Len(head) = (IF Len(text) < n THEN Len(text) ELSE n)
    /\ \A i \in 1..Len(head) : Ch(head, i) = Ch(text, i)

\* C18: once the task and max_iterations have been accepted run_agent_workflow
\* raises nothing; an exception that escapes the workflow execution ends the
\* run with a returned state whose task_complete is false and whose error
\* record holds the type and the message of that exception and the first 100
\* characters of the task.
C18_WorkflowErrorsAreReturned ==
    /\ [](result.kind = "raised" =>
            (Blank(initial_task) \/ max_iterations < 1 \/ max_iterations > 20))
    /\ [](result.kind = "error" =>
            /\ ~result.task_complete
            /\ IsHead(result.error.task, initial_task, 100))
    /\ [][(result.kind = "none" /\ result'.kind = "error") =>
            /\ result'.error.error_type = Escaping.error_type
            /\ result'.error.error_message = Escaping.error_message]_vars
    /\ [][(result.kind = "none" /\ pc # "call") => result'.kind \in {"none", "state", "error"}]_vars

\* a run on a task of more than 100 characters that ran into the recursion
\* limit twice
C18_Witness ==
    /\ pc = "done"
    /\ result.kind = "error"
    /\ initial_task = LongTask
    /\ Len(result.error.task) = 100
    /\ result.error.error_type = "GraphRecursionError"
    /\ workflow_attempts = max_workflow_attempts

(***************************************************************************)
(* The decision engine                                                     *)
(***************************************************************************)
\* C19: the fallback is per call: a call of make_decision whose Anthropic call
\* raised returns, without raising, the decision _make_fallback_decision
\* gives for the same conversation and snapshot, and every call on a valid
\* conversation, the one after a failed Anthropic call included, asks the
\* Anthropic client again while the client is available.
C19_FallbackPerCall ==
    \A i \in 1..Len(calls) :
        /\ calls[i].ai_raised =>
            /\ calls[i].kind = "returned"
            /\ calls[i].decision = _make_fallback_decision(calls[i].messages,
                                                           calls[i].page_context)
        /\ (ai_available /\ calls[i].kind = "returned") => calls[i].ai_tried
        /\ (i > 1 /\ calls[i - 1].ai_raised /\ calls[i].kind = "returned") =>
            calls[i].ai_tried

\* a call that fell back to the rules, followed by a call the AI provider
\* answered
C19_Witness ==
    /\ Len(calls) >= 2
    /\ calls[1].ai_raised /\ calls[1].rule_used
    /\ calls[2].ai_tried /\ ~calls[2].ai_raised /\ ~calls[2].rule_used
    /\ calls[2].kind = "returned"

\* the conversation is empty, or its last entry has no content, content that
\* is no string, or content that is empty or blank
Rejectable(msgs) ==
    IF msgs = <<>> THEN TRUE
    ELSE IF "content" \notin DOMAIN msgs[Len(msgs)] THEN TRUE
    ELSE IF "content_type" \in DOMAIN msgs[Len(msgs)] THEN TRUE
    ELSE Blank(msgs[Len(msgs)].content)

\* C20: make_decision raises ValidationError for every conversation that is
\* empty or whose last entry carries no non-empty string content, and for
\* such a conversation neither the Anthropic client nor the rules are
\* consulted; every other conversation gets a decision.
C20_InvalidConversationRejected ==
    \A i \in 1..Len(calls) :
        IF Rejectable(calls[i].messages)
        THEN /\ calls[i].kind = "raised"
             /\ calls[i].error.error_type = "ValidationError"
             /\ ~calls[i].ai_tried
             /\ ~calls[i].rule_used
        ELSE calls[i].kind = "returned"

\* with the AI provider available, a blank message, an entry without content
\* and content that is no string have been rejected
C20_Witness ==
    /\ ai_available
    /\ Len(calls) = 3
    /\ calls[1].messages = <<UserMessage("   ")>>
    /\ Len(calls[2].messages) = 2
    /\ "content" \notin DOMAIN calls[2].messages[2]
    /\ calls[3].messages = <<NonStrMessage("user", "int", "42")>>
    /\ \A i \in 1..3 : calls[i].kind = "raised"

(***************************************************************************)
(* The tool executor                                                       *)
(***************************************************************************)
\* the call of tool_node: an unknown tool, or a handler that failed
ToolFailed ==
    \/ probe.tool_name \notin BrowserTools
    \/ probe.context # None /\ probe.outcome = "fails"

\* C21: execute_tool raises nothing; for an unknown tool name and for a
\* handler that fails with an error of the browser it gives a failure
\* result, tool_node appends the tool message that reports this result, and
\* the graph goes on to END.
C21_ToolFailureIsReported ==
    (probe.called /\ probe.node = "tool") =>
        /\ probe.result.kind = "returned"
        /\ probe.after.task_complete
        /\ probe.next = END
        /\ ToolFailed =>
            /\ ~probe.result.value.ok
            /\ probe.messages[Len(probe.messages)] =
                   ToolMessage("1", "Tool " \o probe.tool_name
                                    \o " executed with result: False")

(***************************************************************************)
(* The security check and a pending action                                 *)
(***************************************************************************)
\* C27: when security_check runs on a state whose browser_action is set,
\* the next node is human_approval and browser_action is still set;
\* security_check never clears browser_action, and the edge to agent is
\* taken only when browser_action is empty.
C27_CheckKeepsPendingAction ==
    (probe.called /\ probe.node = "security_check") =>
        /\ probe.after.browser_action = probe.before.browser_action
        /\ probe.before.browser_action # "" => probe.next = "human_approval"
        /\ probe.next = "agent" => probe.before.browser_action = ""

(***************************************************************************)
(* The server: cancelling a task, the health report                        *)
(***************************************************************************)
\* the record of the task is marked cancelled
Cancelled == NewTaskId \in DOMAIN task_store /\ task_store[NewTaskId].status = "cancelled"

\* C22: once the record of a running task has been marked cancelled, its
\* run takes no further decision and executes no further tool.
C22_CancelledRunStops ==
    [][Cancelled =>
          /\ tool_log' = tool_log
          /\ trace' # trace => trace'[Len(trace')] \notin {"agent", "tool"}]_vars

\* a step of cancel_task: the request it answers and the record it met
CancelStep ==
    /\ response'.request = "cancel"
    /\ UNCHANGED run
    /\ <<task_store, response>>' # <<task_store, response>>

Cancellable(task_id) ==
    task_id \in DOMAIN task_store /\ task_store[task_id].status # "completed"

\* C23: cancel_task marks the record cancelled exactly when the record
\* exists and its status is not completed; for a completed record and for
\* an unknown id the request is rejected and task_store is left as it was.
C23_CancelMarksOrRejects ==
    [][CancelStep =>
          IF Cancellable(response'.task_id)
          THEN /\ response'.status_code = 200
               /\ task_store'[response'.task_id].status = "cancelled"
               /\ \A task_id \in DOMAIN task_store \ {response'.task_id} :
                      task_store'[task_id] = task_store[task_id]
          ELSE /\ response'.status_code \in {400, 404}
               /\ task_store' = task_store]_vars

\* the record was marked cancelled while the task ran, the task completed,
\* and a second cancel request met the completed record and was rejected
C23_Witness ==
    /\ response.request = "cancel"
    /\ response.task_id = NewTaskId
    /\ response.status_code = 400
    /\ task_store[NewTaskId].status = "completed"
    /\ task_store[NewTaskId].error = "Task cancelled by user"

(***************************************************************************)
(* The health report                                                       *)
(***************************************************************************)
\* C26: health_check reports healthy only when every recorded check is a
\* pass: with the session created and the navigation check failed the
\* status is degraded, and with the creation or the cleanup failed it is
\* unhealthy.
C26_HealthStatusAggregates ==
    response.request = "health" =>
        LET health == response.browser_health
        IN  /\ health.status = "healthy" =>
                \A name \in DOMAIN health.checks : health.checks[name] = "pass"
            /\ (response.creation = "ok" /\ response.navigation = "fails"
                    /\ response.cleanup = "ok") => health.status = "degraded"
            /\ (response.creation = "fails" \/ response.cleanup = "fails") =>
                   health.status = "unhealthy"

(***************************************************************************)
(* Tools executed in a run, the attempts of the workflow                   *)
(***************************************************************************)
\* C24: a call of run_agent_workflow executes at most one tool, all the
\* attempts of its workflow taken together: after the tool step the run is
\* complete and no decision and no tool execution follows.
C24_AtMostOneTool ==
    /\ Len(tool_log) <= 1
    /\ \A i \in 1..Len(trace) :
           trace[i] = "tool" => \A j \in (i + 1)..Len(trace) : trace[j] \notin {"agent", "tool"}

(***************************************************************************)
(* An instruction that matches no rule                                     *)
(***************************************************************************)
\* the conversation the run starts with
FirstConversation == <<UserMessage(Strip(initial_task))>>

\* the run is over, it had no API key and its instruction matches no rule
UnmatchedRunOver ==
    /\ result.kind # "none"
    /\ ~ai_available
    /\ ~EmptyTask(initial_task)
    /\ ~BadIterations(max_iterations)
    /\ MatchingRules(FirstConversation) = {9}

\* C25: a run whose instruction matches no rule ends after its first
\* decision, complete and with no tool executed, and the assistant message
\* in its conversation is the informational response of the rule-based
\* provider, which names what the page offers and asks for a more specific
\* instruction.
C25_UnmatchedTaskGetsResponse ==
    UnmatchedRunOver =>
        /\ result.kind = "state"
        /\ result.task_complete
        /\ tool_log = <<>>
        /\ Cardinality({i \in 1..Len(trace) : trace[i] = "agent"}) = 1
        /\ result.messages =
               Append(FirstConversation, AssistantMessage(DefaultResponse(MockPage)))

(***************************************************************************)
(* The session of the run and the nodes of the graph                       *)
(***************************************************************************)
\* C28: in a run that holds a live session, security_check takes its
\* snapshot from that session and tool executes its tool against it; the
\* mock snapshot and the mock results are used only without a session.
C28_NodesUseTheSession ==
    (trace # <<>> /\ pc \in Nodes \cup {END} /\ browser_context # None) =>
        node_context = browser_context

\* C29: a retry of the workflow starts from the initial state of the run:
\* the conversation holds the user's task only, browser_action is empty and
\* task_complete is false.
C29_RetryStartsFresh ==
    (pc = "workflow" /\ workflow_attempts >= 1) =>
        /\ messages = FirstConversation
        /\ state.browser_action = ""
        /\ ~state.task_complete

(***************************************************************************)
(* The iteration budget of a mock-mode run                                 *)
(***************************************************************************)
\* the first decision of the run was a tool call that needs no approval
FirstDecisionUnflaggedTool ==
    /\ Len(messages) >= 2
    /\ "tool_calls" \in DOMAIN messages[2]
    /\ ~should_require_approval(enable_security_checks,
                                messages[2].tool_calls[1].name,
                                messages[2].tool_calls[1].args)

\* C30: for every max_iterations from 1 to 20, a run in mock mode whose first
\* decision is a tool call that needs no approval executes the tool and
\* returns task_complete true; max_iterations = 2 included.
C30_MockRunCompletesInBudget ==
    (/\ result.kind # "none"
     /\ ~use_real_browser
     /\ max_iterations \in MinIterations..MaxIterations
     /\ FirstDecisionUnflaggedTool) =>
        /\ result.kind = "state"
        /\ result.task_complete
        /\ Len(tool_log) >= 1

(***************************************************************************)
(* The security setting of a task request                                  *)
(***************************************************************************)
\* C31: the enable_security of the task request governs the approval of the
\* run it starts: a run requested with enable_security false never gets a
\* pending action, whatever the configuration says.
C31_RequestGovernsSecurity ==
    (task_request.sent /\ ~task_request.enable_security) =>
        /\ graph.browser_action = ""
        /\ result.kind = "state" => result.browser_action = ""

(***************************************************************************)
(* The snapshot after a node                                               *)
(***************************************************************************)
\* C32: page_map is refreshed by security_check before every decision and
\* by tool after every tool it executes, so with a live session the state a
\* node returns holds the snapshot of the live page.
C32_SnapshotRefreshed ==
    (/\ probe.called
     /\ probe.context # None
     /\ probe.outcome = "ok"
     /\ probe.node = "tool" => (probe.tool_name \in BrowserTools /\ probe.result.value.ok)) =>
        probe.after.page_map = LivePage

(***************************************************************************)
(* The record of a task after its run                                      *)
(***************************************************************************)
\* C33: a record whose status has become cancelled keeps that status, also
\* when the background execution of its task finishes later.
C33_CancelledStays ==
    [][Cancelled => Cancelled']_vars

\* C34: a record gets the status completed only for a run that returned a
\* state with task_complete true and no error; a run that returned an error
\* state is recorded as failed.
C34_CompletedMeansComplete ==
    (pc = "stored" /\ NewTaskId \in DOMAIN task_store) =>
        /\ task_store[NewTaskId].status = "completed" =>
               (result.kind = "state" /\ result.task_complete)
        /\ result.kind = "error" => task_store[NewTaskId].status = "failed"

(***************************************************************************)
(* The sessions a run creates                                              *)
(***************************************************************************)
\* close_browser_context has been called on the session at least once
TeardownAttempted(session) ==
    \/ session \in closed
    \/ session = browser_context /\ cleanup_attempts >= 1

\* C35: no session is leaked: every session create_browser_context returned
\* during the run, one whose test navigation failed included, has had a
\* teardown attempt when run_agent_workflow is over.
C35_NoSessionLeaked ==
    RunOver => \A session \in 1..created : TeardownAttempted(session)

(***************************************************************************)
(* The state a run returns                                                 *)
(***************************************************************************)
\* C36: a state returned by run_agent_workflow has task_complete true
\* exactly when it carries no error field.
C36_CompleteIffNoError ==
    Returned => (result.task_complete <=> "error" \notin DOMAIN result)

\* a run has returned the error state: it carries the error and is not complete
C36_Witness ==
    /\ Returned
    /\ "error" \in DOMAIN result
    /\ ~result.task_complete
    /\ trace # <<>>

(***************************************************************************)
(* The conversation of a run                                               *)
(***************************************************************************)
\* the message at place i is the tool message that answers the tool call of
\* the assistant message right before it
AnswersCallBefore(msgs, i) ==
    /\ i >= 2
    /\ msgs[i - 1].role = "assistant"
    /\ "tool_calls" \in DOMAIN msgs[i - 1]
    /\ msgs[i].tool_call_id = Get(msgs[i - 1].tool_calls[1], "id", "1")
    /\ Prefix(msgs[i].content, 5 + Len(msgs[i - 1].tool_calls[1].name)) =
           "Tool " \o msgs[i - 1].tool_calls[1].name

\* the conversation starts with the user's task and its tool messages are in
\* their places
WellFormedConversation(msgs) ==
    /\ msgs[1] = UserMessage(Strip(initial_task))
    /\ \A i \in 1..Len(msgs) : msgs[i].role = "tool" => AnswersCallBefore(msgs, i)

\* C37: throughout a run the conversation grows by appending only: its
\* first message is the user's task, a message once in it is neither changed
\* nor removed, and every tool message comes right after the assistant
\* message with the tool call it answers.
C37_ConversationAppendOnly ==
    [][/\ messages # <<>> =>
             /\ Len(messages') >= Len(messages)
             /\ SubSeq(messages', 1, Len(messages)) = messages
       /\ messages' # <<>> => WellFormedConversation(messages')]_vars

\* the conversation of a run whose tool has been executed
C37_Witness ==
    /\ Len(messages) >= 3
    /\ messages[3].role = "tool"
    /\ tool_log # <<>>

(***************************************************************************)
(* The retry loops of a run                                                *)
(***************************************************************************)
\* an attempt of the workflow is under way
InAttempt == pc \in Nodes \cup {END, "human_approval"}

\* the attempts each loop has made so far: the failed ones and the one that
\* succeeded or is under way
CreationAttempts ==
    browser_creation_attempts
    + (IF pc # "create_browser" /\ browser_context # None THEN 1 ELSE 0)

WorkflowAttempts ==
    workflow_attempts + (IF InAttempt \/ result.kind = "state" THEN 1 ELSE 0)

\* the loops stay within their bounds
LoopsBounded ==
    /\ CreationAttempts <= max_browser_attempts
    /\ WorkflowAttempts <= max_workflow_attempts
    /\ TeardownCalls <= max_cleanup_attempts

\* a loop makes no further attempt after its success, and the workflow is
\* started again only after a failure, which has been counted
LoopsStopAtSuccess ==
    /\ (pc # "create_browser" /\ browser_context # None) =>
           (created' = created /\ browser_creation_attempts' = browser_creation_attempts)
    /\ result.kind # "none" => (trace' = trace /\ ~InAttempt')
    /\ (InAttempt /\ pc' = "workflow") => workflow_attempts' = workflow_attempts + 1
    /\ closed # {} => (closed' = closed /\ cleanup_attempts' = cleanup_attempts)

\* C38: every retry loop of a run is bounded and stops at its first
\* success: at most 3 attempts to create the session, at most 2 attempts of
\* the workflow, at most 3 attempts to close the session, a workflow attempt
\* repeated only after a failed one; and the run terminates whatever fails.
C38_RetryLoopsBoundedAndEnd ==
    /\ []LoopsBounded
    /\ [][LoopsStopAtSuccess]_vars
    /\ <>RunOver

\* every loop has used all its attempts: three creation attempts that
\* failed, two workflow attempts that failed
C38_Witness ==
    /\ RunOver
    /\ browser_creation_attempts = max_browser_attempts
    /\ workflow_attempts = max_workflow_attempts

(***************************************************************************)
(* The text of a text-entry instruction                                    *)
(***************************************************************************)
\* the places of the first pair of single quotes that holds a literal
\* followed by "in" or "into" somewhere after it
LiteralPlaces(content) ==
    {<<i, j>> \in (1..Len(content)) \X (1..Len(content)) :
        /\ i + 1 < j
        /\ Ch(content, i) = "'"
        /\ Ch(content, j) = "'"
        /\ \A k \in (i + 1)..(j - 1) : Ch(content, k) # "'"
        /\ \A k \in 1..(i - 1) : Ch(content, k) # "'"
        /\ \E k \in (j + 1)..Len(content) : At(content, k, "in")}

QuotedLiteral(content) ==
    LET place == CHOOSE p \in LiteralPlaces(content) : TRUE
    IN  SubSeq(content, place[1] + 1, place[2] - 1)

\* the rule-based provider has answered with a type_text call
TypeTextCalled ==
    /\ calls # <<>>
    /\ calls[1].kind = "returned"
    /\ "tool_calls" \in DOMAIN calls[1].decision
    /\ calls[1].decision.tool_calls[1].name = "type_text"

\* C40: for a text-entry instruction with a quoted literal followed by
\* "into" or "in", the type_text call of the rule-based provider carries the
\* literal as its text; "test data" is used only when there is no literal to
\* extract.
C40_TypedTextIsTheLiteral ==
    TypeTextCalled =>
        LET msgs == calls[1].messages
            content == Lower(Strip(msgs[Len(msgs)].content))
            text == calls[1].decision.tool_calls[1].args.text
        IN  /\ LiteralPlaces(content) # {} => text = QuotedLiteral(content)
            /\ text = "test data" => LiteralPlaces(content) = {}

(***************************************************************************)
(* Several runs at once                                                    *)
(***************************************************************************)
\* what belongs to the run of a task: its record in task_store, the local
\* variables of its run_agent_workflow and the checkpoint its graph works on
Owned(task_id) ==
    [record     |-> task_store[task_id],
     locals     |-> runs.of[task_id],
     checkpoint |-> IF runs.of[task_id].app = <<>> THEN <<>> ELSE Checkpoint(task_id)]

\* every message after the first is what the agent node or the tool node
\* makes of the messages before it in the same conversation
DerivedFrom(msgs, task) ==
    /\ Len(msgs) >= 1
    /\ msgs[1] = UserMessage(Strip(task))
    /\ \A i \in 2..Len(msgs) :
        LET before == SubSeq(msgs, 1, i - 1)
            s      == [page_map |-> MockPage, browser_action |-> "", task_complete |-> FALSE]
        IN  IF msgs[i].role = "tool"
            THEN /\ "tool_calls" \in DOMAIN msgs[i - 1]
                 /\ msgs[i] = tool_node(s, before, None, "ok").messages[i]
            ELSE /\ ~InvalidMessages(before)
                 /\ msgs[i] = agent_node(_make_fallback_decision(before, MockPage),
                                         before, s)[1][i]

\* a step changes what belongs to one run at most
OneRunPerStep ==
    \A X \in DOMAIN runs.of :
        Owned(X)' # Owned(X) =>
            \A Y \in DOMAIN runs.of \ {X} : Owned(Y)' = Owned(Y)

\* the conversation of every run, and the one stored for it, comes from its task
OwnConversations ==
    \A X \in DOMAIN runs.of :
        /\ runs.of[X].pc # "call" => DerivedFrom(runs.of[X].messages, runs.of[X].task)
        /\ task_store[X].status = "completed" =>
               DerivedFrom(task_store[X].result.messages, runs.of[X].task)

\* C39: with several runs executing concurrently under any interleaving, no
\* run mutates another run's record or state: a step of the background
\* execution for one id changes only that id's record in task_store, its
\* run's local state and its graph's checkpoint, and every run's conversation,
\* as it grows and as it is stored, holds the user message of its own task
\* followed only by messages made from that conversation.
C39_RunsAreIsolated == []OwnConversations /\ [][OneRunPerStep]_vars

\* one run has stored its result while another run, of a different task, is
\* in the middle of its graph
C39_Witness ==
    /\ DOMAIN runs.of = ConcurrentIds
    /\ runs.of["t1"].pc = "stored"
    /\ task_store["t1"].status = "completed"
    /\ Len(task_store["t1"].result.messages) >= 3
    /\ runs.of["t2"].pc = "tool"
    /\ runs.of["t2"].task # runs.of["t1"].task
    /\ Len(runs.of["t2"].messages) = 2

====
